---- MODULE Spec2Model ----
(***************************************************************************)
(* A model of the version marshalling and check policies of Concourse      *)
(* Tools (concoursetools/version.py, additional.py, resource.py,           *)
(* parsing.py).                                                            *)
(*                                                                         *)
(* One process invocation runs one operation: from the idle state an       *)
(* operation is called with inputs drawn from small sets, its inputs are   *)
(* kept in `inp` and its result in `out`; Exit ends the invocation.        *)
(*                                                                         *)
(* Python strings are sequences of one-character strings, so that str(),   *)
(* int() and string comparison are computed and not assumed.               *)
(***************************************************************************)
EXTENDS Integers, Sequences, FiniteSets, TLC

VARIABLES pc, inp, out

vars == <<pc, inp, out>>

(***************************************************************************)
(* Bounds of the model.                                                    *)
(***************************************************************************)
HashBits == 2       \* width of the modelled hash values (64 in CPython)
MaxSec == 11        \* largest whole-second timestamp of a datetime
MaxSetSize == 2     \* largest set handed to the check policies
MaxCalls == 3       \* longest sequence of calls on one test helper

(***************************************************************************)
(* Results of a call: a value, or a raised exception.                      *)
(***************************************************************************)
Ok(v) == [exc |-> "none", val |-> v]

Raise(e) == [exc |-> e]

IsOk(r) == r.exc = "none"

None == [none |-> TRUE]

\* The element of a one-element set. The({e : v \in {x}}) is e for v = x, a local
\* variable: x is computed once, however often e uses v.
The(S) == CHOOSE y \in S : TRUE

(***************************************************************************)
(* Strings.                                                                *)
(***************************************************************************)
Digits == <<"0", "1", "2", "3", "4", "5", "6", "7", "8", "9">>

\* The characters the model uses, in code-point order.
Alphabet ==
    <<"-", "/", "0", "1", "2", "3", "4", "5", "6", "7", "8", "9", ":",
      "A", "B", "C", "D", "E", "F", "G", "H", "I", "J", "K", "L", "M",
      "N", "O", "P", "Q", "R", "S", "T", "U", "V", "W", "X", "Y", "Z",
      "_", "a", "b", "c", "d", "e", "f", "g", "h", "i", "j", "k", "l",
      "m", "n", "o", "p", "q", "r", "s", "t", "u", "v", "w", "x", "y",
      "z">>

Ord(c) == CHOOSE i \in 1..Len(Alphabet) : Alphabet[i] = c

IsDigit(c) == \E i \in 1..10 : Digits[i] = c

DigitVal(c) == (CHOOSE i \in 1..10 : Digits[i] = c) - 1

\* str.__lt__: lexicographic comparison by code point.
RECURSIVE StrLt(_, _)
StrLt(a, b) ==
    IF b = <<>> THEN FALSE
    ELSE IF a = <<>> THEN TRUE
    ELSE IF Head(a) = Head(b) THEN StrLt(Tail(a), Tail(b))
    ELSE Ord(Head(a)) < Ord(Head(b))

\* str(n) for an int n.
RECURSIVE NatToStr(_)
NatToStr(n) ==
    IF n < 10 THEN <<Digits[n + 1]>>
    ELSE NatToStr(n \div 10) \o <<Digits[(n % 10) + 1]>>

IntToStr(n) == IF n < 0 THEN <<"-">> \o NatToStr(-n) ELSE NatToStr(n)

RECURSIVE DigitsToNat(_, _)
DigitsToNat(s, acc) ==
    IF s = <<>> THEN acc
    ELSE DigitsToNat(Tail(s), (acc * 10) + DigitVal(Head(s)))

AllDigits(s) == s # <<>> /\ \A i \in 1..Len(s) : IsDigit(s[i])

\* int(s) for a str s: decimal digits with an optional minus sign.
StrToInt(s) ==
    IF AllDigits(s) THEN Ok(DigitsToNat(s, 0))
    ELSE IF s # <<>> /\ Head(s) = "-" /\ AllDigits(Tail(s))
         THEN Ok(-DigitsToNat(Tail(s), 0))
    ELSE Raise("ValueError")

sTrue == <<"T", "r", "u", "e">>

sFalse == <<"F", "a", "l", "s", "e">>

\* str(b) for a bool b.
BoolToStr(b) == IF b THEN sTrue ELSE sFalse

(***************************************************************************)
(* Python objects held in version attributes.                              *)
(***************************************************************************)
PyStr(s) == [t |-> "str", s |-> s]

PyInt(n) == [t |-> "int", i |-> n]

PyBool(b) == [t |-> "bool", b |-> b]

\* A naive datetime, as whole seconds since the epoch and microseconds.
PyDatetime(sec, usec) == [t |-> "datetime", sec |-> sec, usec |-> usec]

PyEnum(name) == [t |-> "MyEnum", name |-> name]

PyPath(s) == [t |-> "PosixPath", p |-> s]

\* type.mro() of the types above.
Mro(type) ==
    CASE type = "str" -> <<"str", "object">>
      [] type = "int" -> <<"int", "object">>
      [] type = "bool" -> <<"bool", "int", "object">>
      [] type = "datetime" -> <<"datetime", "date", "object">>
      [] type = "MyEnum" -> <<"MyEnum", "Enum", "object">>
      [] type = "PosixPath" -> <<"PosixPath", "Path", "PurePosixPath", "PurePath", "object">>

EnumNames == {<<"O", "N", "E">>, <<"T", "W", "O">>}

\* str(obj), the default flatten function.
FlattenDefault(obj) ==
    CASE obj.t = "str" -> obj.s
      [] obj.t = "int" -> IntToStr(obj.i)
      [] obj.t = "bool" -> BoolToStr(obj.b)
      [] obj.t = "PosixPath" -> obj.p
      [] obj.t = "MyEnum" -> <<"M", "y", "E", "n", "u", "m", ".">> \o obj.name

\* The function registered for datetime: str(int(obj.timestamp())).
FlattenDatetime(obj) == IntToStr(obj.sec)

\* The function registered for Enum: obj.name.
FlattenEnum(obj) == obj.name

\* type_(flat_obj), the default un-flatten function.
UnFlattenDefault(type, s) ==
    CASE type = "str" -> Ok(PyStr(s))
      [] type = "int" -> LET r == StrToInt(s)
                         IN IF IsOk(r) THEN Ok(PyInt(r.val)) ELSE r
      [] type = "PosixPath" -> Ok(PyPath(s))
      [] type = "MyEnum" -> Raise("ValueError")

\* Any non-empty string is truthy: what bool(flat_obj) would give.
UnFlattenBoolTruthy(type, s) == Ok(PyBool(s # <<>>))

\* The function registered for bool: obj == "True".
UnFlattenBool(type, s) == Ok(PyBool(s = sTrue))

\* The function registered for datetime: type_.fromtimestamp(int(obj)).
UnFlattenDatetime(type, s) ==
    LET r == StrToInt(s)
    IN IF IsOk(r) THEN Ok(PyDatetime(r.val, 0)) ELSE r

\* The function registered for Enum: type_[obj].
UnFlattenEnum(type, s) ==
    IF s \in EnumNames THEN Ok(PyEnum(s)) ELSE Raise("KeyError")

\* The registries of TypedVersion after the module is imported.
FlattenFunctions == [datetime |-> "flatten_datetime", Enum |-> "flatten_enum"]

UnFlattenFunctions ==
    [bool |-> "un_flatten_bool", datetime |-> "un_flatten_datetime", Enum |-> "un_flatten_enum"]

\* A change that looks up the type itself and no class above it.
TypeKeyDictGetExact(registry, mro, default) ==
    IF Head(mro) \in DOMAIN registry THEN registry[Head(mro)] ELSE default

\* _TypeKeyDict.__getitem__ under .get(key, default): the first class of the
\* MRO that is registered, else the default.
RECURSIVE TypeKeyDictGet(_, _, _)
TypeKeyDictGet(registry, mro, default) ==
    IF mro = <<>> THEN default
    ELSE IF Head(mro) \in DOMAIN registry THEN registry[Head(mro)]
    ELSE TypeKeyDictGet(registry, Tail(mro), default)

\* The functions ConcourseMockVersion registers for bool: str(obj).lower()
\* and obj == "true".
FlattenLower(obj) ==
    IF obj.t = "bool" THEN (IF obj.b THEN <<"t", "r", "u", "e">> ELSE <<"f", "a", "l", "s", "e">>)
    ELSE FlattenDefault(obj)

UnFlattenLower(type, s) == Ok(PyBool(s = <<"t", "r", "u", "e">>))

\* flatten_function(obj) for the function found.
ApplyFlatten(f, obj) ==
    CASE f = "flatten_datetime" -> FlattenDatetime(obj)
      [] f = "flatten_enum" -> FlattenEnum(obj)
      [] f = "flatten_lower" -> FlattenLower(obj)
      [] f = "default" -> FlattenDefault(obj)

\* un_flatten_function(type_, flat_obj) for the function found.
ApplyUnFlatten(f, type, s) ==
    CASE f = "un_flatten_bool" -> UnFlattenBool(type, s)
      [] f = "un_flatten_datetime" -> UnFlattenDatetime(type, s)
      [] f = "un_flatten_enum" -> UnFlattenEnum(type, s)
      [] f = "un_flatten_lower" -> UnFlattenLower(type, s)
      [] f = "default" -> UnFlattenDefault(type, s)

FlattenObject(obj) ==
    ApplyFlatten(TypeKeyDictGet(FlattenFunctions, Mro(obj.t), "default"), obj)

UnFlattenObject(type, s) ==
    ApplyUnFlatten(TypeKeyDictGet(UnFlattenFunctions, Mro(type), "default"), type, s)

\* _TypeKeyDict.__setitem__
SetItem(registry, key, item) ==
    [k \in DOMAIN registry \cup {key} |-> IF k = key THEN item ELSE registry[k]]

\* The registry objects after src/tests/resource.py is imported: the pair
\* TypedVersion holds, and the pair ConcourseMockVersion holds, copies with
\* its functions for bool.
Registries ==
    [typed |-> [flatten |-> FlattenFunctions, un_flatten |-> UnFlattenFunctions],
     mock |-> [flatten |-> SetItem(FlattenFunctions, "bool", "flatten_lower"),
               un_flatten |-> SetItem(UnFlattenFunctions, "bool", "un_flatten_lower")]]

\* cls._flatten_functions: the class attribute of the first class of the MRO
\* of cls that has one.  Only ConcourseMockVersion assigns its own.
RegistryOf(cls) == IF cls = "ConcourseMockVersion" THEN "mock" ELSE "typed"

\* cls.flatten(func) and cls.un_flatten(func) for the two functions above
\* with the type hint key: cls._flatten_functions[key] = func.
RegisterCodec(registries, cls, key) ==
    [registries EXCEPT
        ![RegistryOf(cls)] = [flatten |-> SetItem(@.flatten, key, "flatten_lower"),
                              un_flatten |-> SetItem(@.un_flatten, key, "un_flatten_lower")]]

\* cls._flatten_object(obj) and cls._un_flatten_object(type_, flat_obj)
\* with the registries as they are.
FlattenObjectOf(registries, cls, obj) ==
    ApplyFlatten(TypeKeyDictGet(registries[RegistryOf(cls)].flatten, Mro(obj.t), "default"), obj)

UnFlattenObjectOf(registries, cls, type, s) ==
    ApplyUnFlatten(TypeKeyDictGet(registries[RegistryOf(cls)].un_flatten, Mro(type), "default"),
                   type, s)

(***************************************************************************)
(* Versions.  An instance is its class and vars(self) in insertion order;  *)
(* a flat dict is a sequence of key/value pairs in insertion order.        *)
(***************************************************************************)
kRef == <<"r", "e", "f">>

kCommitHash == <<"c", "o", "m", "m", "i", "t", "_", "h", "a", "s", "h">>

kIsMerge == <<"i", "s", "_", "m", "e", "r", "g", "e">>

kForcePush == <<"_", "f", "o", "r", "c", "e", "_", "p", "u", "s", "h">>

kDate == <<"d", "a", "t", "e">>

kExecutionDate == <<"e", "x", "e", "c", "u", "t", "i", "o", "n", "_", "d", "a", "t", "e">>

kNumber == <<"n", "u", "m", "b", "e", "r">>

kKind == <<"k", "i", "n", "d">>

kPath == <<"p", "a", "t", "h">>

kProject == <<"p", "r", "o", "j", "e", "c", "t">>

kRepo == <<"r", "e", "p", "o">>

kA == <<"a">>

kB == <<"b">>

Field(k, type) == [k |-> k, type |-> type]

Attr(k, v) == [k |-> k, v |-> v]

\* The version classes of the model: how the class is built ("plain" for a
\* Version subclass with the default methods, "typed" for a TypedVersion
\* dataclass), the parameters of __init__ with their declared types, the
\* attributes __init__ sets by itself, and what __lt__ compares.
ClassInfo(cls) ==
    CASE cls = "TestVersion" ->
            [kind |-> "plain", fields |-> <<Field(kRef, "str")>>, private |-> <<>>, lt |-> "none"]
      [] cls = "SortableTestVersion" ->
            [kind |-> "plain", fields |-> <<Field(kRef, "str")>>, private |-> <<>>, lt |-> "ref"]
      [] cls = "CommitVersion" ->
            [kind |-> "plain", fields |-> <<Field(kCommitHash, "str"), Field(kIsMerge, "bool")>>,
             private |-> <<>>, lt |-> "none"]
      [] cls = "CommitVersionPrivate" ->
            [kind |-> "plain", fields |-> <<Field(kCommitHash, "str"), Field(kIsMerge, "bool")>>,
             private |-> <<Attr(kForcePush, PyBool(TRUE))>>, lt |-> "none"]
      [] cls = "GitRepoSubVersionUnsortable" ->
            [kind |-> "plain", fields |-> <<Field(kProject, "str"), Field(kRepo, "str")>>,
             private |-> <<>>, lt |-> "none"]
      [] cls = "GitRepoSubVersion" ->
            [kind |-> "plain", fields |-> <<Field(kProject, "str"), Field(kRepo, "str")>>,
             private |-> <<>>, lt |-> "project_repo"]
      [] cls = "MyVersion" ->
            [kind |-> "plain", fields |-> <<Field(kCommitHash, "str"), Field(kDate, "int")>>,
             private |-> <<>>, lt |-> "date"]
      [] cls = "NumberedVersion" ->
            [kind |-> "plain", fields |-> <<Field(kRef, "str")>>, private |-> <<>>, lt |-> "int_ref"]
      [] cls = "VersionA" ->
            [kind |-> "plain", fields |-> <<Field(kA, "str")>>, private |-> <<>>, lt |-> "none"]
      [] cls = "VersionB" ->
            [kind |-> "plain", fields |-> <<Field(kB, "str")>>, private |-> <<>>, lt |-> "none"]
      [] cls = "TypedCommitVersion" ->
            [kind |-> "typed",
             fields |-> <<Field(kCommitHash, "str"), Field(kDate, "datetime"), Field(kIsMerge, "bool")>>,
             private |-> <<>>, lt |-> "none"]
      [] cls = "DatetimeVersion" ->
            [kind |-> "typed", fields |-> <<Field(kExecutionDate, "datetime")>>,
             private |-> <<>>, lt |-> "none"]
      [] cls = "TypedFieldsVersion" ->
            [kind |-> "typed",
             fields |-> <<Field(kNumber, "int"), Field(kKind, "MyEnum"), Field(kPath, "PosixPath")>>,
             private |-> <<>>, lt |-> "none"]

SeqRange(s) == {s[i] : i \in 1..Len(s)}

Keys(d) == {d[i].k : i \in 1..Len(d)}

\* d[key] for a key of the mapping d.
Lookup(d, key) == (CHOOSE i \in 1..Len(d) : d[i].k = key)

\* cls(**kwargs): every parameter of __init__ must be given and no other.
Construct(cls, kwargs) ==
    LET info == ClassInfo(cls)
        names == {info.fields[i].k : i \in 1..Len(info.fields)}
    IN IF Keys(kwargs) # names THEN Raise("TypeError")
       ELSE Ok([cls |-> cls,
                attrs |-> [i \in 1..Len(info.fields) |->
                              Attr(info.fields[i].k, kwargs[Lookup(kwargs, info.fields[i].k)].v)]
                          \o info.private])

\* The instance cls(*values).
New(cls, values) ==
    LET info == ClassInfo(cls)
    IN [cls |-> cls,
        attrs |-> [i \in 1..Len(info.fields) |-> Attr(info.fields[i].k, values[i])] \o info.private]

\* The attributes that do not start with an underscore.
RECURSIVE PublicAttrs(_)
PublicAttrs(attrs) ==
    IF attrs = <<>> THEN <<>>
    ELSE IF Head(Head(attrs).k) = "_" THEN PublicAttrs(Tail(attrs))
    ELSE <<Head(attrs)>> \o PublicAttrs(Tail(attrs))

\* Version.to_flat_dict and TypedVersion.to_flat_dict.
ToFlatDict(v) ==
    LET public == PublicAttrs(v.attrs)
    IN IF ClassInfo(v.cls).kind = "typed"
       THEN [i \in 1..Len(public) |-> Attr(public[i].k, FlattenObject(public[i].v))]
       ELSE [i \in 1..Len(public) |-> Attr(public[i].k, FlattenDefault(public[i].v))]

\* TypedVersion._get_attribute_type.
GetAttributeType(cls, key) ==
    LET fields == ClassInfo(cls).fields
    IN IF \E i \in 1..Len(fields) : fields[i].k = key
       THEN Ok(fields[CHOOSE i \in 1..Len(fields) : fields[i].k = key].type)
       ELSE Raise("KeyError")

\* Version.from_flat_dict and TypedVersion.from_flat_dict.
FromFlatDict(cls, d) ==
    IF ClassInfo(cls).kind = "typed"
    THEN LET un(i) == LET type == GetAttributeType(cls, d[i].k)
                      IN IF IsOk(type) THEN UnFlattenObject(type.val, d[i].v) ELSE type
         IN IF \E i \in 1..Len(d) : ~IsOk(un(i))
            THEN Raise(un(CHOOSE i \in 1..Len(d) : ~IsOk(un(i)) /\ \A j \in 1..(i - 1) : IsOk(un(j))).exc)
            ELSE Construct(cls, [i \in 1..Len(d) |-> Attr(d[i].k, un(i).val)])
    ELSE Construct(cls, [i \in 1..Len(d) |-> Attr(d[i].k, PyStr(d[i].v))])

\* dict.__eq__: the same keys with the same values, in any order.
DictEq(d1, d2) == SeqRange(d1) = SeqRange(d2)

(***************************************************************************)
(* Hashing.  hash() of a tuple of strings depends on the hash seed of the  *)
(* process and hash() of a class on its address, so both are taken from a  *)
(* hash environment chosen when the process starts: `pairs` gives the hash *)
(* of each tuple of sorted flat pairs and `types` the hash of each class.  *)
(***************************************************************************)
HashVals == 0..((2 ^ HashBits) - 1)

\* a | b on non-negative integers.
RECURSIVE BitOr(_, _)
BitOr(a, b) ==
    IF a = 0 THEN b
    ELSE IF b = 0 THEN a
    ELSE (2 * BitOr(a \div 2, b \div 2)) + (IF (a % 2) = 1 \/ (b % 2) = 1 THEN 1 ELSE 0)

\* tuple(sorted(flat_dict.items())): one value per mapping, whatever the
\* insertion order of the dict.
SortedFlatPairs(d) == SeqRange(d)

\* The hash environments that cover the versions vs.  Distinct classes are
\* distinct objects and have distinct hashes; distinct tuples are given
\* distinct hashes, so that two equal hashes of versions never come from a
\* collision inside hash() itself.
HashEnvs(vs) ==
    LET tuples == {SortedFlatPairs(ToFlatDict(v)) : v \in vs}
        classes == {v.cls : v \in vs}
        Injective(f) == \A x, y \in DOMAIN f : x # y => f[x] # f[y]
    IN {[pairs |-> p, types |-> t] :
            p \in {f \in [tuples -> HashVals] : Injective(f)},
            t \in {f \in [classes -> HashVals] : Injective(f)}}

\* Version.__hash__.
VersionHash(v, henv) ==
    BitOr(henv.pairs[SortedFlatPairs(ToFlatDict(v))], henv.types[v.cls])

\* Version.__eq__, and the __eq__ that @dataclass gives a TypedVersion.
VersionEq(v1, v2, henv) ==
    IF ClassInfo(v1.cls).kind = "typed"
    THEN v1.cls = v2.cls /\ v1.attrs = v2.attrs
    ELSE VersionHash(v1, henv) = VersionHash(v2, henv)

Init ==
    /\ pc = "idle"
    /\ inp = None
    /\ out = None

\* The process ends; nothing is kept between invocations.
Exit ==
    /\ pc # "idle"
    /\ pc' = "idle"
    /\ inp' = None
    /\ out' = None

BoolStrings == {sTrue, sFalse, <<"t", "r", "u", "e">>, <<"1">>, <<"0">>, <<>>}

\* TypedVersion._flatten_object(b) and TypedVersion._un_flatten_object(bool, s).
BoolCodec ==
    /\ pc = "idle"
    /\ \E b \in BOOLEAN, s \in BoolStrings :
        /\ inp' = [b |-> b, s |-> s]
        /\ out' = [flat |-> FlattenObject(PyBool(b)),
                   back |-> UnFlattenObject("bool", FlattenObject(PyBool(b))),
                   parsed |-> UnFlattenObject("bool", s)]
    /\ pc' = "bool_codec"

(***************************************************************************)
(* Ordering.  A Python set is a sequence without repetition: its elements  *)
(* in iteration order.                                                     *)
(***************************************************************************)
AttrOf(v, key) == v.attrs[Lookup(v.attrs, key)].v

\* a < b for two instances of one class: the __lt__ of the class, and
\* TypeError for a class that defines none.
VersionLt(a, b) ==
    LET lt == ClassInfo(a.cls).lt
    IN CASE lt = "none" -> Raise("TypeError")
         [] lt = "ref" -> Ok(StrLt(AttrOf(a, kRef).s, AttrOf(b, kRef).s))
         [] lt = "project_repo" ->
                Ok(\/ StrLt(AttrOf(a, kProject).s, AttrOf(b, kProject).s)
                   \/ /\ AttrOf(a, kProject).s = AttrOf(b, kProject).s
                      /\ StrLt(AttrOf(a, kRepo).s, AttrOf(b, kRepo).s))
         [] lt = "date" -> Ok(AttrOf(a, kDate).i < AttrOf(b, kDate).i)
         [] lt = "int_ref" ->
                LET x == StrToInt(AttrOf(a, kRef).s)
                    y == StrToInt(AttrOf(b, kRef).s)
                IN IF ~IsOk(x) THEN x ELSE IF ~IsOk(y) THEN y ELSE Ok(x.val < y.val)

\* max(iterable): the first of the greatest elements; item > maxitem is
\* answered by the reflected maxitem < item.
RECURSIVE MaxFrom(_, _)
MaxFrom(maxitem, rest) ==
    IF rest = <<>> THEN Ok(maxitem)
    ELSE The({ IF ~IsOk(gt) THEN gt
               ELSE IF gt.val THEN MaxFrom(Head(rest), Tail(rest))
               ELSE MaxFrom(maxitem, Tail(rest))
               : gt \in {VersionLt(maxitem, Head(rest))} })

\* A change that takes the first element for the greatest.
PyMaxFirst(items) ==
    IF items = <<>> THEN Raise("ValueError") ELSE Ok(Head(items))

\* max(iterable)
PyMax(items) ==
    IF items = <<>> THEN Raise("ValueError") ELSE MaxFrom(Head(items), Tail(items))

\* The place of x in the sorted list: after every element that is not
\* greater than x, found from the right.
RECURSIVE InsertSorted(_, _)
InsertSorted(sorted, x) ==
    IF sorted = <<>> THEN Ok(<<x>>)
    ELSE The({ IF ~IsOk(lt) THEN lt
               ELSE IF ~lt.val THEN Ok(Append(sorted, x))
               ELSE The({ IF IsOk(r) THEN Ok(Append(r.val, sorted[Len(sorted)])) ELSE r
                          : r \in {InsertSorted(SubSeq(sorted, 1, Len(sorted) - 1), x)} })
               : lt \in {VersionLt(x, sorted[Len(sorted)])} })

\* The sorted list with the rest of the items inserted one after the other.
RECURSIVE SortFrom(_, _)
SortFrom(sorted, rest) ==
    IF rest = <<>> THEN Ok(sorted)
    ELSE The({ IF IsOk(r) THEN SortFrom(r.val, Tail(rest)) ELSE r
               : r \in {InsertSorted(sorted, Head(rest))} })

\* A change that leaves the items in iteration order.
PyUnsorted(items) == Ok(items)

\* sorted(iterable): a stable sort that only uses <.
PySorted(items) == SortFrom(<<>>, items)

\* (version for version in all_versions if previous_version < version)
RECURSIVE NewerThan(_, _)
NewerThan(previous, items) ==
    IF items = <<>> THEN Ok(<<>>)
    ELSE The({ IF ~IsOk(lt) THEN lt
               ELSE The({ IF ~IsOk(r) THEN r
                          ELSE IF lt.val THEN Ok(<<Head(items)>> \o r.val)
                          ELSE r
                          : r \in {NewerThan(previous, Tail(items))} })
               : lt \in {VersionLt(previous, Head(items))} })

(***************************************************************************)
(* The check policies.                                                     *)
(***************************************************************************)
\* A change that forgets the previous version.
TriggerFetchNewVersionsOnlyLatest(latest_version, previous_version, henv) ==
    Ok(<<latest_version>>)

\* TriggerOnChangeConcourseResource.fetch_new_versions
TriggerFetchNewVersions(latest_version, previous_version, henv) ==
    IF previous_version = None THEN Ok(<<latest_version>>)
    ELSE IF VersionEq(latest_version, previous_version, henv) THEN Ok(<<previous_version>>)
    ELSE Ok(<<previous_version, latest_version>>)

\* A change that returns the whole fetched set, unsorted and unfiltered.
SelfOrganisingFetchAll(all_versions, previous_version) ==
    Ok(all_versions)

\* SelfOrganisingConcourseResource.fetch_new_versions
SelfOrganisingFetchNewVersions(all_versions, previous_version) ==
    The({ IF newest_version.exc = "ValueError"
          THEN (IF all_versions = <<>> THEN Ok(<<>>) ELSE Raise("RuntimeError"))
          ELSE IF ~IsOk(newest_version) THEN newest_version
          ELSE IF previous_version = None THEN Ok(<<newest_version.val>>)
          ELSE The({ IF ~IsOk(versions) THEN versions
                     ELSE IF versions.val = <<>> THEN Ok(<<previous_version>>)
                     ELSE versions
                     : versions \in
                         { IF IsOk(newer) THEN PySorted(newer.val) ELSE newer
                           : newer \in {NewerThan(previous_version, all_versions)} } })
          : newest_version \in {PyMax(all_versions)} })

(***************************************************************************)
(* MultiVersion.  The JSON text json.dumps gives is kept as the data it     *)
(* encodes, in the order of the text.                                      *)
(***************************************************************************)
kRepos == <<"r", "e", "p", "o", "s">>

JsonDumps(data) == [json |-> data]

JsonLoads(text) == text.json

\* x in s for a set s: an element with the same hash that is equal to x.
PySetContains(s, x, henv) ==
    \E i \in 1..Len(s) :
        /\ VersionHash(s[i], henv) = VersionHash(x, henv)
        /\ VersionEq(s[i], x, henv)

\* The set built by adding the items one after the other.
RECURSIVE PySetOf(_, _, _)
PySetOf(s, items, henv) ==
    IF items = <<>> THEN s
    ELSE The({ PySetOf(added, Tail(items), henv)
               : added \in {IF PySetContains(s, Head(items), henv)
                            THEN s ELSE Append(s, Head(items))} })

\* set.__eq__
PySetEq(s1, s2, henv) ==
    /\ Len(s1) = Len(s2)
    /\ \A i \in 1..Len(s1) : PySetContains(s2, s1[i], henv)

\* The instance of the class _create_multi_version_class(key, sub) gives.
NewMultiVersion(key, sub, versions) ==
    [cls |-> "MultiVersion", key |-> key, sub |-> sub, versions |-> versions]

\* A change that flattens the sub-versions in iteration order, without sorting.
SubVersionDataUnsorted(mv) ==
    Ok([i \in 1..Len(mv.versions) |-> ToFlatDict(mv.versions[i])])

\* MultiVersion.sub_version_data
SubVersionData(mv) ==
    The({ IF IsOk(sorted_versions)
          THEN Ok([i \in 1..Len(sorted_versions.val) |-> ToFlatDict(sorted_versions.val[i])])
          ELSE sorted_versions
          : sorted_versions \in {PySorted(mv.versions)} })

\* MultiVersion.to_flat_dict
MultiToFlatDict(mv) ==
    The({ IF IsOk(data) THEN Ok(<<Attr(mv.key, JsonDumps(data.val))>>) ELSE data
          : data \in {SubVersionData(mv)} })

\* MultiVersion.from_flat_dict
MultiFromFlatDict(key, sub, version_dict, henv) ==
    IF key \notin Keys(version_dict) THEN Raise("KeyError")
    ELSE The({ IF \E i \in 1..Len(subs) : ~IsOk(subs[i])
               THEN Raise(subs[CHOOSE i \in 1..Len(subs) : ~IsOk(subs[i])].exc)
               ELSE Ok(NewMultiVersion(key, sub,
                           PySetOf(<<>>, [i \in 1..Len(subs) |-> subs[i].val], henv)))
               : subs \in
                   { [i \in 1..Len(dicts) |-> FromFlatDict(sub, dicts[i])]
                     : dicts \in {JsonLoads(version_dict[Lookup(version_dict, key)].v)} } })

\* MultiVersion.__eq__
MultiEq(mv1, mv2, henv) == PySetEq(mv1.versions, mv2.versions, henv)

(***************************************************************************)
(* The check operation of a resource.                                      *)
(***************************************************************************)
kUri == <<"u", "r", "i">>

kBranch == <<"b", "r", "a", "n", "c", "h">>

kPrivateKey == <<"p", "r", "i", "v", "a", "t", "e", "_", "k", "e", "y">>

kSomethingA == <<"s", "o", "m", "e", "t", "h", "i", "n", "g", "_", "a">>

kSomethingB == <<"s", "o", "m", "e", "t", "h", "i", "n", "g", "_", "b">>

kResource == <<"r", "e", "s", "o", "u", "r", "c", "e">>

\* The resource classes of the model: the version class, the parameters of
\* __init__ that must be given and those that may be, and the versions the
\* resource has, oldest first.
ResourceInfo(cls) ==
    CASE cls = "TestResource" ->
            [version_class |-> "TestVersion",
             required |-> {kUri}, optional |-> {kBranch, kPrivateKey},
             history |-> <<<<"6", "1", "c", "b", "e", "f">>, <<"d", "7", "4", "e", "0", "1">>,
                           <<"7", "1", "5", "4", "f", "e">>>>]
      [] cls = "OrganisingResource" ->
            [version_class |-> "SortableTestVersion",
             required |-> {}, optional |-> {},
             history |-> <<<<"1", "1", "1">>, <<"2", "2", "2">>, <<"3", "3", "3">>>>]
      [] cls = "ResourceA" ->
            [version_class |-> "VersionA",
             required |-> {kSomethingA}, optional |-> {}, history |-> <<>>]
      [] cls = "ResourceB" ->
            [version_class |-> "VersionB",
             required |-> {kSomethingB}, optional |-> {}, history |-> <<>>]

HistoryVersions(cls) ==
    LET info == ResourceInfo(cls)
    IN [i \in 1..Len(info.history) |-> New(info.version_class, <<PyStr(info.history[i])>>)]

\* The JSON values of a payload: null, and an object as its members in the
\* order of the text.
JsonNull == [null |-> TRUE]

JsonObject(members) == [object |-> members]

\* A change that takes an absent source for an empty configuration.
ExtractSourceConfigOrEmpty(payload) ==
    IF "source" \notin DOMAIN payload THEN Ok(<<>>)
    ELSE IF payload.source = JsonNull THEN Ok(<<>>)
    ELSE Ok(payload.source.object)

\* parsing._extract_source_config_from_payload
ExtractSourceConfig(payload) ==
    IF "source" \notin DOMAIN payload THEN Raise("RuntimeError")
    ELSE IF payload.source = JsonNull THEN Ok(<<>>)
    ELSE Ok(payload.source.object)

\* parsing._extract_version_config_from_payload
ExtractVersionConfig(payload) ==
    IF "version" \notin DOMAIN payload THEN Raise("KeyError")
    ELSE LET unsafe_version_config == payload.version.object
         IN Ok([i \in 1..Len(unsafe_version_config) |->
                    Attr(unsafe_version_config[i].k, FlattenDefault(unsafe_version_config[i].v))])

\* parsing.parse_check_payload: the source configuration, and the version
\* configuration or None.
ParseCheckPayload(payload) ==
    LET source_config == ExtractSourceConfig(payload)
        version_config == ExtractVersionConfig(payload)
    IN IF ~IsOk(source_config) THEN source_config
       ELSE Ok([source |-> source_config.val,
                version |-> IF IsOk(version_config) THEN version_config ELSE None])

\* A call of user code: the constructor of a resource class or one of its
\* lifecycle methods, with the keyword arguments it is given.
Call(name, cls, kwargs) == [name |-> name, cls |-> cls, kwargs |-> kwargs]

\* What a step of a main method gives: a value or an exception, and the
\* user code called on the way.
Parsed(val, calls) == [exc |-> "none", val |-> val, calls |-> calls]

Failed(exc, calls) == [exc |-> exc, calls |-> calls]

\* ConcourseResource._from_resource_config: cls(**resource_config)
FromResourceConfig(cls, resource_config) ==
    LET info == ResourceInfo(cls)
    IN IF /\ info.required \subseteq Keys(resource_config)
          /\ Keys(resource_config) \subseteq (info.required \cup info.optional)
       THEN Parsed([cls |-> cls, version_class |-> info.version_class],
                   <<Call("__init__", cls, resource_config)>>)
       ELSE Failed("TypeError", <<Call("__init__", cls, resource_config)>>)

\* A JSON array, which json.loads gives as a list.
PyList(items) == [t |-> "list", items |-> items]

\* hash(obj) is defined: a list has no hash.
IsHashable(obj) == obj.t # "list"

\* dict.pop(key) leaves the mapping without the key.
DictPop(d, key) == SelectSeq(d, LAMBDA e : e.k # key)

\* The mapping and the flag key CombinedResource is built from:
\* combine_resource_types({"A": ResourceA, "B": ResourceB}).
CombinedResources == <<Attr(<<"A">>, "ResourceA"), Attr(<<"B">>, "ResourceB")>>

CombinedParamKey == kResource

\* A change that leaves the flag in the configuration given to the delegate.
MultiResourceKeepsFlag(resources, param_key, resource_config) ==
    IF param_key \notin Keys(resource_config) THEN Failed("ValueError", <<>>)
    ELSE The({ IF ~IsHashable(resource_key) THEN Failed("TypeError", <<>>)
               ELSE IF resource_key.t # "str" \/ resource_key.s \notin Keys(resources)
                    THEN Failed("KeyError", <<>>)
               ELSE FromResourceConfig(resources[Lookup(resources, resource_key.s)].v,
                                       resource_config)
               : resource_key \in {resource_config[Lookup(resource_config, param_key)].v} })

\* MultiResourceConcourseResource._from_resource_config
MultiResourceFromResourceConfig(resources, param_key, resource_config) ==
    IF param_key \notin Keys(resource_config) THEN Failed("ValueError", <<>>)
    ELSE The({ IF ~IsHashable(resource_key) THEN Failed("TypeError", <<>>)
               ELSE IF resource_key.t # "str" \/ resource_key.s \notin Keys(resources)
                    THEN Failed("KeyError", <<>>)
               ELSE FromResourceConfig(resources[Lookup(resources, resource_key.s)].v,
                                       DictPop(resource_config, param_key))
               : resource_key \in {resource_config[Lookup(resource_config, param_key)].v} })

\* cls._from_resource_config(resource_config) for a resource class or for
\* the combined class.
ResourceFromConfig(cls, resource_config) ==
    IF cls = "CombinedResource"
    THEN MultiResourceFromResourceConfig(CombinedResources, CombinedParamKey, resource_config)
    ELSE FromResourceConfig(cls, resource_config)

\* A change that runs the delegate when arguments are given.
PseudoNewDelegates(cls, args, kwargs) ==
    IF args = <<>> /\ kwargs = <<>> THEN Failed("TypeError", <<>>)
    ELSE FromResourceConfig("ResourceA", kwargs)

\* _PseudoConcourseResource.__new__(cls): it takes no argument, and raises.
PseudoNew(cls, args, kwargs) ==
    IF args # <<>> \/ kwargs # <<>> THEN Failed("TypeError", <<>>)
    ELSE Failed("TypeError", <<>>)

\* ConcourseResource._parse_check_input
ParseCheckInput(cls, payload) ==
    The({ IF ~IsOk(parsed) THEN Failed(parsed.exc, <<>>)
          ELSE The({ IF ~IsOk(resource) THEN resource
                     ELSE IF parsed.val.version = None
                          THEN Parsed([resource |-> resource.val, previous_version |-> None],
                                      resource.calls)
                     ELSE The({ IF ~IsOk(previous_version)
                                THEN Failed(previous_version.exc, resource.calls)
                                ELSE Parsed([resource |-> resource.val,
                                             previous_version |-> previous_version.val],
                                            resource.calls)
                                : previous_version \in
                                    {FromFlatDict(resource.val.version_class,
                                                  parsed.val.version.val)} })
                     : resource \in {ResourceFromConfig(cls, parsed.val.source)} })
          : parsed \in {ParseCheckPayload(payload)} })

\* fetch_new_versions of the resource classes: what it returns and what it
\* prints.  all_versions is the set of OrganisingResource in iteration order.
FetchNewVersions(cls, previous_version, all_versions) ==
    CASE cls = "TestResource" ->
            IF previous_version # None
            THEN [result |-> Ok(<<HistoryVersions(cls)[3]>>), printed |-> <<"Previous version found.">>]
            ELSE [result |-> Ok(HistoryVersions(cls)), printed |-> <<>>]
      [] cls = "OrganisingResource" ->
            [result |-> SelfOrganisingFetchNewVersions(all_versions, previous_version),
             printed |-> <<>>]
      [] cls = "ResourceA" ->
            [result |-> Ok(<<New("VersionA", <<PyStr(<<>>)>>)>>), printed |-> <<>>]
      [] cls = "ResourceB" ->
            [result |-> Ok(<<>>), printed |-> <<>>]

\* str(obj) of the objects a configuration may hold.
StrOf(obj) ==
    IF obj = None THEN <<"N", "o", "n", "e">> ELSE FlattenDefault(obj)

\* A change that leaves the values as they are given.
FormatCheckOutputUnsafe(version_configs) == JsonDumps(version_configs)

\* parsing.format_check_output: every value goes through str().
FormatCheckOutput(version_configs) ==
    JsonDumps([i \in 1..Len(version_configs) |->
                  [j \in 1..Len(version_configs[i]) |->
                      Attr(version_configs[i][j].k, PyStr(StrOf(version_configs[i][j].v)))]])

\* The flat dict as Python holds it: a mapping to str objects.
AsObjects(flat) == [i \in 1..Len(flat) |-> Attr(flat[i].k, PyStr(flat[i].v))]

\* The streams of the process: what was written to standard output and to
\* standard error, and the stream sys.stdout refers to.
StdStreams == [stdout |-> <<>>, stderr |-> <<>>, sys_stdout |-> "stdout"]

\* print(line) for each line: written to the stream sys.stdout refers to.
PrintLines(io, lines) ==
    IF io.sys_stdout = "stdout" THEN [io EXCEPT !.stdout = @ \o lines]
    ELSE [io EXCEPT !.stderr = @ \o lines]

\* A change that runs the body without redirecting.
RunWithoutRedirect(io, call) == PrintLines(io, call.printed)

\* A change that only restores sys.stdout when the body returns.
RedirectStdoutNoRestore(io, call) ==
    IF IsOk(call.result)
    THEN [PrintLines([io EXCEPT !.sys_stdout = "stderr"], call.printed)
             EXCEPT !.sys_stdout = io.sys_stdout]
    ELSE PrintLines([io EXCEPT !.sys_stdout = "stderr"], call.printed)

\* with contextlib.redirect_stdout(sys.stderr): <call>; sys.stdout is set
\* to sys.stderr for the body and set back on exit, also after an exception.
RedirectStdout(io, call) ==
    [PrintLines([io EXCEPT !.sys_stdout = "stderr"], call.printed)
        EXCEPT !.sys_stdout = io.sys_stdout]

\* resource._output
Output(io, payload) == PrintLines(io, <<payload>>)

\* The process when a main method ends: the exception that ended it or
\* "none", the streams, and the user code called.
Finish(exc, io, calls) ==
    [exc |-> exc, stdout |-> io.stdout, stderr |-> io.stderr,
     sys_stdout |-> io.sys_stdout, calls |-> calls]

\* ConcourseResource.check_main
CheckMain(cls, payload, all_versions) ==
    The({ IF ~IsOk(input) THEN Finish(input.exc, StdStreams, input.calls)
          ELSE The({ IF ~IsOk(fetched.result)
                     THEN Finish(fetched.result.exc, RedirectStdout(StdStreams, fetched),
                                 Append(input.calls,
                                        Call("fetch_new_versions", input.val.resource.cls, <<>>)))
                     ELSE Finish("none",
                                 Output(RedirectStdout(StdStreams, fetched),
                                        FormatCheckOutput(
                                            [i \in 1..Len(fetched.result.val) |->
                                                AsObjects(ToFlatDict(fetched.result.val[i]))])),
                                 Append(input.calls,
                                        Call("fetch_new_versions", input.val.resource.cls, <<>>)))
                     : fetched \in {FetchNewVersions(input.val.resource.cls,
                                                     input.val.previous_version,
                                                     all_versions)} })
          : input \in {ParseCheckInput(cls, payload)} })

(***************************************************************************)
(* The in and out operations of a resource.                                *)
(***************************************************************************)
kFileName == <<"f", "i", "l", "e", "_", "n", "a", "m", "e">>

kRefFile == <<"r", "e", "f", "_", "f", "i", "l", "e">>

kTeamName == <<"t", "e", "a", "m", "_", "n", "a", "m", "e">>

\* parsing._extract_param_config_from_payload
ExtractParamConfig(payload) ==
    IF "params" \notin DOMAIN payload THEN Ok(<<>>)
    ELSE IF payload.params = JsonNull THEN Raise("AttributeError")
    ELSE Ok(payload.params.object)

\* A change that takes an absent version for None, as a check does.
ParseInPayloadLenient(payload) ==
    The({ The({ The({ IF ~IsOk(source_config) THEN source_config
                      ELSE IF ~IsOk(params_config) THEN params_config
                      ELSE Ok([source |-> source_config.val,
                               version |-> IF IsOk(version_config)
                                           THEN version_config.val ELSE <<>>,
                               params |-> params_config.val])
                      : version_config \in {ExtractVersionConfig(payload)} })
                : params_config \in {IF IsOk(source_config)
                                     THEN ExtractParamConfig(payload) ELSE source_config} })
          : source_config \in {ExtractSourceConfig(payload)} })

\* parsing.parse_in_payload
ParseInPayload(payload) ==
    The({ The({ The({ IF ~IsOk(source_config) THEN source_config
                      ELSE IF ~IsOk(params_config) THEN params_config
                      ELSE IF version_config.exc = "KeyError" THEN Raise("RuntimeError")
                      ELSE Ok([source |-> source_config.val,
                               version |-> version_config.val,
                               params |-> params_config.val])
                      : version_config \in {ExtractVersionConfig(payload)} })
                : params_config \in {IF IsOk(source_config)
                                     THEN ExtractParamConfig(payload) ELSE source_config} })
          : source_config \in {ExtractSourceConfig(payload)} })

\* parsing.parse_out_payload
ParseOutPayload(payload) ==
    The({ The({ IF ~IsOk(source_config) THEN source_config
                ELSE IF ~IsOk(params_config) THEN params_config
                ELSE Ok([source |-> source_config.val, params |-> params_config.val])
                : params_config \in {IF IsOk(source_config)
                                     THEN ExtractParamConfig(payload) ELSE source_config} })
          : source_config \in {ExtractSourceConfig(payload)} })

\* A change that falls back to the working directory without argv[1].
ArgvDirectoryOrDefault(argv) ==
    IF Len(argv) < 2 THEN Ok(PyPath(<<".">>)) ELSE Ok(PyPath(argv[2]))

\* pathlib.Path(sys.argv[1]), ValueError when there is no argv[1]; argv[0],
\* the script, is argv[1] of the model.
ArgvDirectory(argv) ==
    IF Len(argv) < 2 THEN Raise("ValueError") ELSE Ok(PyPath(argv[2]))

\* ConcourseResource._parse_in_input
ParseInInput(cls, payload, argv) ==
    The({ IF ~IsOk(destination_dir) THEN Failed(destination_dir.exc, <<>>)
          ELSE The({ IF ~IsOk(parsed) THEN Failed(parsed.exc, <<>>)
                     ELSE The({ IF ~IsOk(resource) THEN resource
                                ELSE The({ IF ~IsOk(version)
                                           THEN Failed(version.exc, resource.calls)
                                           ELSE Parsed([resource |-> resource.val,
                                                        version |-> version.val,
                                                        destination_dir |-> destination_dir.val,
                                                        params |-> parsed.val.params],
                                                       resource.calls)
                                           : version \in
                                               {FromFlatDict(resource.val.version_class,
                                                             parsed.val.version)} })
                                : resource \in {ResourceFromConfig(cls, parsed.val.source)} })
                     : parsed \in {ParseInPayload(payload)} })
          : destination_dir \in {ArgvDirectory(argv)} })

\* ConcourseResource._parse_out_input
ParseOutInput(cls, payload, argv) ==
    The({ IF ~IsOk(sources_dir) THEN Failed(sources_dir.exc, <<>>)
          ELSE The({ IF ~IsOk(parsed) THEN Failed(parsed.exc, <<>>)
                     ELSE The({ IF ~IsOk(resource) THEN resource
                                ELSE Parsed([resource |-> resource.val,
                                             sources_dir |-> sources_dir.val,
                                             params |-> parsed.val.params],
                                            resource.calls)
                                : resource \in {ResourceFromConfig(cls, parsed.val.source)} })
                     : parsed \in {ParseOutPayload(payload)} })
          : sources_dir \in {ArgvDirectory(argv)} })

\* The environment variables BuildMetadata reads.
BuildVariables ==
    {"BUILD_ID", "BUILD_TEAM_NAME", "ATC_EXTERNAL_URL", "BUILD_NAME", "BUILD_JOB_NAME",
     "BUILD_PIPELINE_NAME", "BUILD_PIPELINE_INSTANCE_VARS"}

\* BuildMetadata.from_env: os.environ[...] for the first three variables
\* and os.environ.get(...) for the others.
BuildMetadataFromEnv(environ) ==
    IF {"BUILD_ID", "BUILD_TEAM_NAME", "ATC_EXTERNAL_URL"} \subseteq DOMAIN environ
    THEN Ok([name \in BuildVariables |->
                IF name \in DOMAIN environ THEN PyStr(environ[name]) ELSE None])
    ELSE Raise("KeyError")

\* The keyword parameters of the lifecycle methods after the positional
\* ones: those that must be given and those that may be.
LifecycleParams(cls, method) ==
    CASE cls = "TestResource" /\ method = "download_version" ->
            [required |-> {}, optional |-> {kFileName}]
      [] cls = "TestResource" /\ method = "publish_new_version" ->
            [required |-> {kRepo}, optional |-> {kRefFile}]
      [] OTHER -> [required |-> {}, optional |-> {}]

\* method(..., **params) binds its arguments.
AcceptsParams(cls, method, params) ==
    /\ LifecycleParams(cls, method).required \subseteq Keys(params)
    /\ Keys(params) \subseteq
            (LifecycleParams(cls, method).required \cup LifecycleParams(cls, method).optional)

\* What a lifecycle method gives: its result, and what it printed.
Returned(val, printed) == [result |-> Ok(val), printed |-> printed]

Raised(exc, printed) == [result |-> Raise(exc), printed |-> printed]

\* download_version of the resource classes.  fs tells whether the
\* destination directory exists.
DownloadVersion(cls, version, destination_dir, build_metadata, params, fs) ==
    IF ~AcceptsParams(cls, "download_version", params) THEN Raised("TypeError", <<>>)
    ELSE CASE cls = "TestResource" ->
                IF ~fs.destination_exists
                THEN Raised("FileNotFoundError", <<"Downloading.">>)
                ELSE Returned([version |-> version,
                               metadata |-> <<Attr(kTeamName, build_metadata["BUILD_TEAM_NAME"])>>],
                              <<"Downloading.">>)
           [] cls = "ResourceA" ->
                Returned([version |-> version, metadata |-> <<Attr(kA, PyStr(<<>>))>>], <<>>)
           [] OTHER -> Returned([version |-> version, metadata |-> <<>>], <<>>)

\* publish_new_version of the resource classes.  fs.ref_text is the text of
\* the file TestResource reads, or None when there is no such file.
PublishNewVersion(cls, sources_dir, build_metadata, params, fs) ==
    IF ~AcceptsParams(cls, "publish_new_version", params) THEN Raised("TypeError", <<>>)
    ELSE CASE cls = "TestResource" ->
                IF fs.ref_text = None THEN Raised("FileNotFoundError", <<>>)
                ELSE Returned([version |-> New("TestVersion", <<PyStr(fs.ref_text.s)>>),
                               metadata |-> <<>>],
                              <<"Uploading.">>)
           [] cls = "OrganisingResource" ->
                Returned([version |-> New("SortableTestVersion", <<PyStr(<<>>)>>),
                          metadata |-> <<>>], <<>>)
           [] cls = "ResourceA" ->
                Returned([version |-> New("VersionA", <<PyStr(<<>>)>>), metadata |-> <<>>], <<>>)
           [] cls = "ResourceB" ->
                Returned([version |-> New("VersionB", <<PyStr(<<>>)>>), metadata |-> <<>>], <<>>)

\* parsing.format_metadata
FormatMetadata(metadata) ==
    [i \in 1..Len(metadata) |->
        [name |-> PyStr(metadata[i].k), value |-> PyStr(StrOf(metadata[i].v))]]

\* parsing.format_in_out_output
FormatInOutOutput(version_config, metadata) ==
    JsonDumps([version |-> [j \in 1..Len(version_config) |->
                               Attr(version_config[j].k, PyStr(StrOf(version_config[j].v)))],
               metadata |-> FormatMetadata(metadata)])

\* The end of in_main and out_main after the lifecycle method was called.
FinishInOut(called, io, calls) ==
    IF ~IsOk(called.result) THEN Finish(called.result.exc, io, calls)
    ELSE Finish("none",
                Output(io, FormatInOutOutput(AsObjects(ToFlatDict(called.result.val.version)),
                                             called.result.val.metadata)),
                calls)

\* A change that reads the build metadata before the input is parsed.
InMainMetadataFirst(cls, payload, argv, environ, fs) ==
    The({ IF ~IsOk(build_metadata) THEN Finish(build_metadata.exc, StdStreams, <<>>)
          ELSE The({ IF ~IsOk(input) THEN Finish(input.exc, StdStreams, input.calls)
                     ELSE The({ FinishInOut(called, RedirectStdout(StdStreams, called),
                                            Append(input.calls,
                                                   Call("download_version",
                                                        input.val.resource.cls,
                                                        input.val.params)))
                                : called \in
                                    {DownloadVersion(input.val.resource.cls, input.val.version,
                                                     input.val.destination_dir,
                                                     build_metadata.val, input.val.params, fs)} })
                     : input \in {ParseInInput(cls, payload, argv)} })
          : build_metadata \in {BuildMetadataFromEnv(environ)} })

\* ConcourseResource.in_main
InMain(cls, payload, argv, environ, fs) ==
    The({ IF ~IsOk(input) THEN Finish(input.exc, StdStreams, input.calls)
          ELSE The({ IF ~IsOk(build_metadata)
                     THEN Finish(build_metadata.exc, StdStreams, input.calls)
                     ELSE The({ FinishInOut(called, RedirectStdout(StdStreams, called),
                                            Append(input.calls,
                                                   Call("download_version",
                                                        input.val.resource.cls,
                                                        input.val.params)))
                                : called \in
                                    {DownloadVersion(input.val.resource.cls, input.val.version,
                                                     input.val.destination_dir,
                                                     build_metadata.val, input.val.params, fs)} })
                     : build_metadata \in {BuildMetadataFromEnv(environ)} })
          : input \in {ParseInInput(cls, payload, argv)} })

\* ConcourseResource.out_main
OutMain(cls, payload, argv, environ, fs) ==
    The({ IF ~IsOk(input) THEN Finish(input.exc, StdStreams, input.calls)
          ELSE The({ IF ~IsOk(build_metadata)
                     THEN Finish(build_metadata.exc, StdStreams, input.calls)
                     ELSE The({ FinishInOut(called, RedirectStdout(StdStreams, called),
                                            Append(input.calls,
                                                   Call("publish_new_version",
                                                        input.val.resource.cls,
                                                        input.val.params)))
                                : called \in
                                    {PublishNewVersion(input.val.resource.cls,
                                                       input.val.sources_dir,
                                                       build_metadata.val, input.val.params, fs)} })
                     : build_metadata \in {BuildMetadataFromEnv(environ)} })
          : input \in {ParseOutInput(cls, payload, argv)} })

(***************************************************************************)
(* The build metadata.  A template string is the sequence of its pieces:   *)
(* literal text [lit |-> chars] and placeholders [var |-> name].           *)
(***************************************************************************)
\* dict.update
DictUpdate(d, other) ==
    [k \in DOMAIN d \cup DOMAIN other |-> IF k \in DOMAIN other THEN other[k] ELSE d[k]]

\* mocking.create_env_vars; instance_vars is None or a dict, and the JSON
\* text json.dumps gives for it is kept as the data it encodes.
CreateEnvVars(one_off_build, instance_vars, env_vars) ==
    The({ IF one_off_build THEN env
          ELSE DictUpdate(
                  IF instance_vars # None
                  THEN SetItem(DictUpdate(env, [BUILD_JOB_NAME |-> <<"m", "y", "-", "j", "o", "b">>,
                                                BUILD_PIPELINE_NAME |-> <<"m", "y", "-", "p", "i", "p", "e", "l", "i", "n", "e">>]),
                               "BUILD_PIPELINE_INSTANCE_VARS", JsonDumps(instance_vars.object))
                  ELSE DictUpdate(env, [BUILD_JOB_NAME |-> <<"m", "y", "-", "j", "o", "b">>,
                                        BUILD_PIPELINE_NAME |-> <<"m", "y", "-", "p", "i", "p", "e", "l", "i", "n", "e">>]),
                  env_vars)
          : env \in {[BUILD_ID |-> <<"1", "2", "3", "4", "5", "6", "7", "8">>,
                      BUILD_NAME |-> <<"4", "2">>,
                      BUILD_TEAM_NAME |-> <<"m", "y", "-", "t", "e", "a", "m">>,
                      ATC_EXTERNAL_URL |-> <<"h", "t", "t", "p", "s", ":", "/", "/", "c", "i">>]} })

\* BuildMetadata(**env): the attributes of the instance.
BuildMetadataInit(env) ==
    IF ~({"BUILD_ID", "BUILD_TEAM_NAME", "ATC_EXTERNAL_URL"} \subseteq DOMAIN env)
       \/ ~(DOMAIN env \subseteq BuildVariables)
    THEN Raise("TypeError")
    ELSE Ok([name \in BuildVariables |-> IF name \in DOMAIN env THEN PyStr(env[name]) ELSE None])

\* BuildMetadata.is_one_off_build
IsOneOffBuild(metadata) ==
    /\ metadata["BUILD_JOB_NAME"] = None
    /\ metadata["BUILD_PIPELINE_NAME"] = None
    /\ metadata["BUILD_PIPELINE_INSTANCE_VARS"] = None

\* urllib.parse.quote on the characters of the model.
RECURSIVE UrlQuote(_)
UrlQuote(s) ==
    IF s = <<>> THEN <<>>
    ELSE (CASE Head(s) = "\"" -> <<"%", "2", "2">>
            [] Head(s) = " " -> <<"%", "2", "0">>
            [] OTHER -> <<Head(s)>>) \o UrlQuote(Tail(s))

\* f"{value}" of an attribute that is a str or None.
FormatAttr(value) == IF value = None THEN <<"N", "o", "n", "e">> ELSE value.s

\* "&".join(f"vars.{key}={quote(json.dumps(value))}" ...) for instance vars
\* that are strings.
RECURSIVE VarsQuery(_)
VarsQuery(items) ==
    IF items = <<>> THEN <<>>
    ELSE <<"v", "a", "r", "s", ".">> \o items[1].k \o <<"=">> \o UrlQuote(<<"\"">> \o items[1].v.s \o <<"\"">>)
         \o (IF Len(items) > 1 THEN <<"&">> \o VarsQuery(Tail(items)) ELSE <<>>)

\* BuildMetadata.build_url
BuildUrl(metadata) ==
    metadata["ATC_EXTERNAL_URL"].s \o <<"/">>
    \o UrlQuote(IF IsOneOffBuild(metadata)
                THEN <<"b", "u", "i", "l", "d", "s", "/">> \o metadata["BUILD_ID"].s
                ELSE <<"t", "e", "a", "m", "s", "/">> \o metadata["BUILD_TEAM_NAME"].s
                     \o <<"/", "p", "i", "p", "e", "l", "i", "n", "e", "s", "/">> \o FormatAttr(metadata["BUILD_PIPELINE_NAME"])
                     \o <<"/", "j", "o", "b", "s", "/">> \o FormatAttr(metadata["BUILD_JOB_NAME"])
                     \o <<"/", "b", "u", "i", "l", "d", "s", "/">> \o FormatAttr(metadata["BUILD_NAME"]))
    \o (IF metadata["BUILD_PIPELINE_INSTANCE_VARS"] # None
        THEN <<"?">> \o VarsQuery(JsonLoads(metadata["BUILD_PIPELINE_INSTANCE_VARS"].s))
        ELSE <<>>)

\* value or ""
OrEmpty(value) == IF value = None THEN <<>> ELSE value.s

\* possible_values of format_string: the attributes, BUILD_URL, the
\* additional values, and the creator of the build, when the environment
\* has it, under the key "$BUILD_CREATED_BY".
PossibleValues(metadata, environ, additional_values) ==
    The({ IF "BUILD_CREATED_BY" \in DOMAIN environ
          THEN SetItem(values, "$BUILD_CREATED_BY", environ["BUILD_CREATED_BY"])
          ELSE values
          : values \in {DictUpdate(
                [name \in BuildVariables \cup {"BUILD_URL"} |->
                    IF name = "BUILD_URL" THEN BuildUrl(metadata)
                    ELSE OrEmpty(metadata[name])],
                IF additional_values = None THEN <<>> ELSE additional_values.dict)} })

\* A dict given where None may be given.
PyDict(d) == [dict |-> d]

\* string.Template.substitute and safe_substitute on the pieces.
Substitute(template, values, ignore_missing) ==
    IF ~ignore_missing /\ \E i \in 1..Len(template) :
                            "var" \in DOMAIN template[i] /\ template[i].var \notin DOMAIN values
    THEN Raise("KeyError")
    ELSE Ok([i \in 1..Len(template) |->
                IF "var" \in DOMAIN template[i] /\ template[i].var \in DOMAIN values
                THEN [lit |-> values[template[i].var]]
                ELSE template[i]])

\* BuildMetadata.format_string
FormatString(metadata, environ, string, additional_values, ignore_missing) ==
    Substitute(string, PossibleValues(metadata, environ, additional_values), ignore_missing)


(***************************************************************************)
(* The temporary directory of the test wrappers.  A TemporaryDirectory is  *)
(* the files of its folder and whether the folder still exists.            *)
(***************************************************************************)
\* TemporaryDirectoryState.__init__
TemporaryDirectoryStateInit(starting_state) ==
    [starting_state |-> IF starting_state = None THEN PyDict(<<>>) ELSE starting_state,
     temp_dir |-> None,
     final_state |-> None]

\* TemporaryDirectoryState.path
TemporaryDirectoryStatePath(self) ==
    IF self.temp_dir # None THEN Ok(self.temp_dir) ELSE Raise("RuntimeError")

\* TemporaryDirectoryState.final_state
TemporaryDirectoryStateFinalState(self) ==
    IF self.final_state = None THEN Raise("RuntimeError") ELSE Ok(self.final_state)

\* TemporaryDirectoryState.__enter__: the instance afterwards.
TemporaryDirectoryStateEnter(self) ==
    Ok([self EXCEPT !.temp_dir = [files |-> self.starting_state, exists |-> TRUE]])

\* TemporaryDirectoryState.__exit__: the instance afterwards; reading the
\* folder of a directory that was cleaned up raises FileNotFoundError.
TemporaryDirectoryStateExit(self) ==
    IF self.temp_dir = None THEN Raise("RuntimeError")
    ELSE IF ~self.temp_dir.exists THEN Raise("FileNotFoundError")
    ELSE Ok([self EXCEPT !.final_state = self.temp_dir.files,
                         !.temp_dir = [files |-> PyDict(<<>>), exists |-> FALSE]])

\* The instance after a sequence of __enter__ and __exit__ calls; a call
\* that raises leaves the instance as it was.
RECURSIVE TemporaryDirectoryStateCalls(_, _)
TemporaryDirectoryStateCalls(self, calls) ==
    IF calls = <<>> THEN self
    ELSE The({ TemporaryDirectoryStateCalls(IF IsOk(next) THEN next.val ELSE self, Tail(calls))
               : next \in {IF Head(calls) = "enter" THEN TemporaryDirectoryStateEnter(self)
                           ELSE TemporaryDirectoryStateExit(self)} })

\* The temporary directory of the instance exists.
IsOpen(self) == self.temp_dir # None /\ self.temp_dir.exists


(***************************************************************************)
(* The test wrappers.  A wrapper is its instance attributes that hold      *)
(* methods and its directory state; a method is its __name__ and whether   *)
(* calling it is forbidden.                                                *)
(***************************************************************************)
\* TestResourceWrapper.__init__
TestResourceWrapperInit(directory_dict) ==
    [attrs |-> <<>>, directory_state |-> TemporaryDirectoryStateInit(directory_dict)]

\* self.<name>: the instance attribute, or else the method of the class.
GetMethod(self, name) ==
    IF name \in DOMAIN self.attrs THEN self.attrs[name]
    ELSE [name |-> name, forbidden |-> FALSE]

\* The new_method that _forbid_methods defines.
NewMethod == [name |-> "new_method", forbidden |-> TRUE]

\* _forbid_methods up to its yield.
ForbidMethodsEnter(self, method) ==
    [self EXCEPT !.attrs = SetItem(@, method.name, NewMethod)]

\* A change that leaves the forbidden method in place.
ForbidMethodsExitKeep(self, method) == self

\* _forbid_methods after its yield: the finally clause.
ForbidMethodsExit(self, method) ==
    [self EXCEPT !.attrs = SetItem(@, method.name, method)]

\* capture_directory_state up to its yield: the wrapper, and what the
\* generator keeps for its finally clauses.
CaptureDirectoryStateEnter(self, starting_state) ==
    The({ [self |-> [ForbidMethodsEnter(self, method) EXCEPT
                        !.directory_state.starting_state =
                            IF starting_state # None THEN starting_state ELSE @],
           frame |-> [old_start_state |-> self.directory_state.starting_state,
                      method |-> method]]
          : method \in {GetMethod(self, "fetch_new_versions")} })

\* capture_directory_state after its yield, on a normal exit and on an
\* exception alike: the finally clauses.
CaptureDirectoryStateExit(self, frame) ==
    ForbidMethodsExit([self EXCEPT !.directory_state.starting_state = frame.old_start_state],
                      frame.method)

\* The wrapper and the stack of open contexts after a sequence of steps: a
\* context is opened, the innermost context is left normally, or an
\* exception is raised in the innermost body and leaves every context.
RECURSIVE RunContexts(_, _, _)
RunContexts(self, stack, steps) ==
    IF steps = <<>> THEN [self |-> self, stack |-> stack]
    ELSE CASE Head(steps).op = "open" ->
                The({ RunContexts(entered.self, <<entered.frame>> \o stack, Tail(steps))
                      : entered \in {CaptureDirectoryStateEnter(self, Head(steps).starting_state)} })
           [] Head(steps).op = "close" ->
                RunContexts(CaptureDirectoryStateExit(self, Head(stack)), Tail(stack), Tail(steps))
           [] Head(steps).op = "raise" ->
                IF stack = <<>> THEN RunContexts(self, stack, Tail(steps))
                ELSE RunContexts(CaptureDirectoryStateExit(self, Head(stack)), Tail(stack), steps)

\* wrapper.fetch_new_versions(previous_version) of a SimpleTestResourceWrapper
\* around a TestResource.
WrapperFetchNewVersions(self, previous_version) ==
    IF GetMethod(self, "fetch_new_versions").forbidden THEN Raise("RuntimeError")
    ELSE FetchNewVersions("TestResource", previous_version, <<>>).result

(***************************************************************************)
(* The instances the operations are called with.                           *)
(***************************************************************************)
Refs == {<<"1", "1", "1">>, <<"2", "2">>, <<"2", "2", "2">>, <<"3", "3", "3">>}

CommitHashes == {<<"a", "b", "c">>}

Datetimes == {PyDatetime(sec, usec) : sec \in 0..MaxSec, usec \in {0, 500000}}

Numbers == {-3, 0, 7, 10}

Paths == {<<"/", "a", "/", "b">>, <<"a">>}

PlainVersions ==
    {New("TestVersion", <<PyStr(r)>>) : r \in Refs}
    \cup {New(c, <<PyStr(h), PyBool(b)>>) :
            c \in {"CommitVersion", "CommitVersionPrivate"}, h \in CommitHashes, b \in BOOLEAN}

TypedVersions ==
    {New("TypedCommitVersion", <<PyStr(h), d, PyBool(b)>>) :
        h \in CommitHashes, d \in Datetimes, b \in BOOLEAN}
    \cup {New("DatetimeVersion", <<d>>) : d \in Datetimes}
    \cup {New("TypedFieldsVersion", <<PyInt(n), PyEnum(e), PyPath(p)>>) :
            n \in Numbers, e \in EnumNames, p \in Paths}

NoHashEnv == [pairs |-> <<>>, types |-> <<>>]

\* V.from_flat_dict(v.to_flat_dict()) == v for an instance v of a class V.
RoundTrip ==
    /\ pc = "idle"
    /\ \E v \in PlainVersions \cup TypedVersions :
        LET flat == ToFlatDict(v)
            back == FromFlatDict(v.cls, flat)
        IN \E henv \in (IF ClassInfo(v.cls).kind = "typed" \/ ~IsOk(back)
                        THEN {NoHashEnv} ELSE HashEnvs({v, back.val})) :
            /\ inp' = [v |-> v, henv |-> henv]
            /\ out' = [flat |-> flat,
                       back |-> back,
                       eq |-> IsOk(back) /\ VersionEq(back.val, v, henv)]
    /\ pc' = "round_trip"

ComparedVersions ==
    {New(c, <<PyStr(r)>>) :
        c \in {"TestVersion", "SortableTestVersion"}, r \in {<<"1", "1", "1">>, <<"2", "2", "2">>}}

\* v1 == v2 and the hashes of v1 and v2, for two instances that use
\* Version.__eq__ and Version.__hash__.
Compare ==
    /\ pc = "idle"
    /\ \E v1 \in ComparedVersions, v2 \in ComparedVersions :
        \E henv \in HashEnvs({v1, v2}) :
            /\ inp' = [v1 |-> v1, v2 |-> v2, henv |-> henv]
            /\ out' = [eq |-> VersionEq(v1, v2, henv),
                       hash1 |-> VersionHash(v1, henv),
                       hash2 |-> VersionHash(v2, henv)]
    /\ pc' = "compare"

\* The Python sets of at most n elements of S: the sequences without
\* repetition, one for each iteration order.
PySets(S, n) ==
    {q \in UNION {[1..k -> S] : k \in 0..n} : \A i, j \in 1..Len(q) : i # j => q[i] # q[j]}

TriggerVersions == {New("TestVersion", <<PyStr(r)>>) : r \in Refs}

\* fetch_new_versions of a trigger-on-change resource whose
\* fetch_latest_version returns latest.
Trigger ==
    /\ pc = "idle"
    /\ \E latest \in TriggerVersions, previous \in TriggerVersions \cup {None} :
        \E henv \in HashEnvs({latest, previous} \ {None}) :
            /\ inp' = [latest |-> latest, previous |-> previous, henv |-> henv]
            /\ out' = TriggerFetchNewVersions(latest, previous, henv)
    /\ pc' = "trigger"

OrganisedClasses == {"SortableTestVersion", "TestVersion", "NumberedVersion", "MyVersion"}

NumberedRefs == {<<"7">>, <<"1", "0">>, <<"x">>}

DatedCommits == {<<PyStr(<<"a">>), PyInt(1)>>, <<PyStr(<<"b">>), PyInt(1)>>, <<PyStr(<<"c">>), PyInt(2)>>}

\* The instances of a class that fetch_all_versions may return.
OrganisedVersions(cls) ==
    CASE cls = "NumberedVersion" -> {New(cls, <<PyStr(r)>>) : r \in NumberedRefs}
      [] cls = "MyVersion" -> {New(cls, values) : values \in DatedCommits}
      [] OTHER -> {New(cls, <<PyStr(r)>>) : r \in Refs}

\* fetch_new_versions of a self-organising resource whose
\* fetch_all_versions returns the set all_versions.
Organise ==
    /\ pc = "idle"
    /\ \E cls \in OrganisedClasses :
        \E all_versions \in PySets(OrganisedVersions(cls), MaxSetSize),
           previous \in OrganisedVersions(cls) \cup {None} :
            /\ inp' = [all_versions |-> all_versions, previous |-> previous]
            /\ out' = SelfOrganisingFetchNewVersions(all_versions, previous)
    /\ pc' = "organise"

SubVersionClasses == {"GitRepoSubVersion", "GitRepoSubVersionUnsortable", "MyVersion"}

GitRepos ==
    {<<PyStr(<<"A", "B", "C">>), PyStr(<<"a", "l", "p", "h", "a", "b", "e", "t">>)>>,
     <<PyStr(<<"X", "Y", "Z">>), PyStr(<<"r", "e", "p", "o">>)>>,
     <<PyStr(<<"X", "Y", "Z">>), PyStr(<<"t", "e", "s", "t", "i", "n", "g">>)>>}

SubVersions(cls) ==
    IF cls = "MyVersion" THEN {New(cls, values) : values \in DatedCommits}
    ELSE {New(cls, values) : values \in GitRepos}

\* No two elements of a set are equal.
IsPySet(s, henv) ==
    \A i, j \in 1..Len(s) : i # j => ~VersionEq(s[i], s[j], henv)

\* to_flat_dict of two MultiVersions that hold the same sub-versions in two
\* iteration orders, and from_flat_dict of the first flat dict.
MultiFlatten ==
    /\ pc = "idle"
    /\ \E sub \in SubVersionClasses :
        \E order1 \in PySets(SubVersions(sub), MaxSetSize),
           order2 \in PySets(SubVersions(sub), MaxSetSize) :
            /\ SeqRange(order1) = SeqRange(order2)
            /\ \E henv \in HashEnvs(SeqRange(order1)) :
                /\ IsPySet(order1, henv)
                /\ \E flat1 \in {MultiToFlatDict(NewMultiVersion(kRepos, sub, order1))} :
                   \E back \in {IF IsOk(flat1)
                                THEN MultiFromFlatDict(kRepos, sub, flat1.val, henv)
                                ELSE flat1} :
                       LET mv1 == NewMultiVersion(kRepos, sub, order1)
                           mv2 == NewMultiVersion(kRepos, sub, order2)
                       IN /\ inp' = [mv1 |-> mv1, mv2 |-> mv2, henv |-> henv]
                          /\ out' = [flat1 |-> flat1,
                                     flat2 |-> MultiToFlatDict(mv2),
                                     back |-> back,
                                     eq |-> IsOk(back) /\ MultiEq(back.val, mv1, henv),
                                     same |-> MultiEq(mv1, mv2, henv)]
    /\ pc' = "multi_flatten"

ResourceClasses == {"TestResource", "OrganisingResource"}

sGitX == <<"g", "i", "t", ":", "/", "/", "x">>

CheckSources == {JsonNull, JsonObject(<<>>), JsonObject(<<Attr(kUri, PyStr(sGitX))>>)}

CheckVersions ==
    {JsonObject(<<Attr(kRef, PyStr(<<"6", "1", "c", "b", "e", "f">>))>>),
     JsonObject(<<Attr(kRef, PyStr(<<"1", "1", "1">>))>>),
     JsonObject(<<Attr(kRef, PyStr(<<"3", "3", "3">>))>>),
     JsonObject(<<Attr(kRef, PyInt(7))>>)}

\* The check payloads: objects with or without `source` and `version`.
CheckPayloads ==
    {[source |-> s] : s \in CheckSources}
    \cup {[version |-> v] : v \in CheckVersions}
    \cup {[source |-> s, version |-> v] : s \in CheckSources, v \in CheckVersions}

\* check_main of a resource class on a payload read from standard input.
Check ==
    /\ pc = "idle"
    /\ \E cls \in ResourceClasses, payload \in CheckPayloads :
        \E all_versions \in (IF cls = "OrganisingResource"
                             THEN {q \in PySets(SeqRange(HistoryVersions(cls)), 3) : Len(q) = 3}
                             ELSE {<<>>}) :
            /\ inp' = [cls |-> cls, payload |-> payload, all_versions |-> all_versions]
            /\ out' = CheckMain(cls, payload, all_versions)
    /\ pc' = "check"

\* A member a payload does not have.
Absent == [absent |-> TRUE]

\* The payload objects with the given values for `source`, `version` and
\* `params`, each of which may be Absent.
Payloads(sources, versions, params) ==
    {[key \in {k \in {"source", "version", "params"} :
                [source |-> s, version |-> v, params |-> p][k] # Absent} |->
        [source |-> s, version |-> v, params |-> p][key]] :
        s \in sources, v \in versions, p \in params}

sReadmeMd == <<"R", "E", "A", "D", "M", "E", ".", "m", "d">>

StepParams ==
    {JsonNull, JsonObject(<<>>), JsonObject(<<Attr(kFileName, PyStr(sReadmeMd))>>),
     JsonObject(<<Attr(kRepo, PyStr(<<"x">>))>>)}

StepVersions ==
    {JsonObject(<<Attr(kRef, PyStr(<<"6", "1", "c", "b", "e", "f">>))>>),
     JsonObject(<<Attr(kRef, PyInt(7))>>)}

\* The payloads a main method may read from standard input.
StepPayloads ==
    Payloads(CheckSources \cup {Absent}, StepVersions \cup {Absent}, StepParams \cup {Absent})

\* parse_check_payload, parse_in_payload and parse_out_payload of one payload.
ParsePayload ==
    /\ pc = "idle"
    /\ \E payload \in StepPayloads :
        /\ inp' = [payload |-> payload]
        /\ out' = [check_payload |-> ParseCheckPayload(payload),
                   in_payload |-> ParseInPayload(payload),
                   out_payload |-> ParseOutPayload(payload)]
    /\ pc' = "parse"

sTmp == <<"/", "t", "m", "p">>

\* sys.argv: the script, with or without the directory.
Argvs == {<<<<"i", "n">>>>, <<<<"i", "n">>, sTmp>>}

\* os.environ: empty, or the variables of a build (mocking.create_env_vars).
Environs ==
    {<<>>,
     [name \in {"BUILD_ID", "BUILD_NAME", "BUILD_TEAM_NAME", "ATC_EXTERNAL_URL"} |->
        CASE name = "BUILD_ID" -> <<"1", "2", "3", "4", "5", "6", "7", "8">>
          [] name = "BUILD_NAME" -> <<"4", "2">>
          [] name = "BUILD_TEAM_NAME" -> <<"m", "y", "-", "t", "e", "a", "m">>
          [] name = "ATC_EXTERNAL_URL" -> <<"h", "t", "t", "p", "s", ":", "/", "/", "c", "i">>]}

\* in_main of a resource class.
In ==
    /\ pc = "idle"
    /\ \E cls \in ResourceClasses, payload \in StepPayloads, argv \in Argvs,
          environ \in Environs, destination_exists \in BOOLEAN :
        /\ inp' = [cls |-> cls, payload |-> payload, argv |-> argv, environ |-> environ,
                   fs |-> [destination_exists |-> destination_exists, ref_text |-> None]]
        /\ out' = InMain(cls, payload, argv, environ,
                         [destination_exists |-> destination_exists, ref_text |-> None])
    /\ pc' = "in"

\* out_main of a resource class.
Out ==
    /\ pc = "idle"
    /\ \E cls \in ResourceClasses, payload \in StepPayloads, argv \in Argvs,
          environ \in Environs, ref_text \in {None, PyStr(<<"7", "1", "5", "4", "f", "e">>)} :
        /\ inp' = [cls |-> cls, payload |-> payload, argv |-> argv, environ |-> environ,
                   fs |-> [destination_exists |-> TRUE, ref_text |-> ref_text]]
        /\ out' = OutMain(cls, payload, argv, environ,
                          [destination_exists |-> TRUE, ref_text |-> ref_text])
    /\ pc' = "out"

\* The TypedVersion classes a function is registered through.
TypedClasses == {"TypedVersion", "TypedCommitVersion", "DatetimeVersion", "ConcourseMockVersion"}

\* The objects flattened and the strings un-flattened around a registration.
CodecObjects ==
    {PyBool(TRUE), PyBool(FALSE), PyInt(7), PyStr(<<"t", "r", "u", "e">>), PyEnum(<<"O", "N", "E">>),
     PyDatetime(1, 0), PyPath(<<"a">>)}

CodecStrings == {<<"t", "r", "u", "e">>, sTrue, <<"7">>, <<"O", "N", "E">>}

\* cls.flatten(func) and cls.un_flatten(func) through a class, and
\* _flatten_object and _un_flatten_object of every class before and after.
Register ==
    /\ pc = "idle"
    /\ \E via \in TypedClasses, key \in {"bool", "int"}, obj \in CodecObjects, s \in CodecStrings :
        \E after \in {RegisterCodec(Registries, via, key)} :
            /\ inp' = [via |-> via, key |-> key, obj |-> obj, s |-> s]
            /\ out' = [before |-> [c \in TypedClasses |->
                                      [flat |-> FlattenObjectOf(Registries, c, obj),
                                       back |-> UnFlattenObjectOf(Registries, c, obj.t, s)]],
                       after |-> [c \in TypedClasses |->
                                     [flat |-> FlattenObjectOf(after, c, obj),
                                      back |-> UnFlattenObjectOf(after, c, obj.t, s)]],
                       registries |-> after]
    /\ pc' = "register"

\* DatetimeVersion.now() when datetime.now() reads clock.
DatetimeVersionNow(clock) == New("DatetimeVersion", <<clock>>)

\* InOnlyConcourseResource.publish_new_version
InOnlyPublishNewVersion(clock) ==
    Returned([version |-> DatetimeVersionNow(clock), metadata |-> <<>>], <<>>)

\* InOnlyConcourseResource.fetch_new_versions
InOnlyFetchNewVersions(previous_version) == Returned(<<>>, <<>>)

\* Two calls of publish_new_version of an InOnlyConcourseResource, the
\* second at a later reading of the clock, and a check afterwards.
Publish ==
    /\ pc = "idle"
    /\ \E clock1 \in Datetimes, clock2 \in Datetimes, has_previous \in BOOLEAN :
        /\ \/ clock1.sec < clock2.sec
           \/ (clock1.sec = clock2.sec /\ clock1.usec < clock2.usec)
        /\ \E first \in {InOnlyPublishNewVersion(clock1).result.val.version},
              second \in {InOnlyPublishNewVersion(clock2).result.val.version} :
            /\ inp' = [clock1 |-> clock1, clock2 |-> clock2, has_previous |-> has_previous]
            /\ out' = [first |-> ToFlatDict(first), second |-> ToFlatDict(second),
                       fetched |-> InOnlyFetchNewVersions(
                                       IF has_previous THEN second ELSE None).result.val]
    /\ pc' = "publish"

\* The keyword arguments given to create_env_vars.
EnvVarsGiven ==
    {<<>>, SetItem(<<>>, "BUILD_ID", <<"9">>), SetItem(<<>>, "EXTRA", <<"e">>),
     SetItem(<<>>, "BUILD_JOB_NAME", <<"j">>),
     SetItem(SetItem(<<>>, "BUILD_ID", <<"9">>), "EXTRA", <<"e">>),
     SetItem(<<>>, "BUILD_PIPELINE_INSTANCE_VARS", JsonDumps(<<>>))}

\* The instance vars given to create_env_vars.
InstanceVarsGiven == {None, JsonObject(<<>>), JsonObject(<<Attr(kA, PyStr(<<"b">>))>>)}

\* create_env_vars(one_off_build, instance_vars, **env_vars)
MockEnviron ==
    /\ pc = "idle"
    /\ \E one_off_build \in BOOLEAN, instance_vars \in InstanceVarsGiven,
          env_vars \in EnvVarsGiven :
        /\ inp' = [one_off_build |-> one_off_build, instance_vars |-> instance_vars,
                   env_vars |-> env_vars]
        /\ out' = CreateEnvVars(one_off_build, instance_vars, env_vars)
    /\ pc' = "mock_environ"

\* The pieces of the template strings.
TemplatePieces ==
    {[lit |-> <<"i", "d", " ">>]}
    \cup {[var |-> name] : name \in {"BUILD_ID", "BUILD_JOB_NAME", "BUILD_URL",
                                     "BUILD_CREATED_BY", "OTHER"}}

\* TestBuildMetadata(one_off_build, instance_vars).format_string(string,
\* additional_values, ignore_missing) with or without BUILD_CREATED_BY in
\* the environment.
Interpolate ==
    /\ pc = "idle"
    /\ \E one_off_build \in BOOLEAN, instance_vars \in InstanceVarsGiven,
          created_by \in BOOLEAN, ignore_missing \in BOOLEAN,
          piece1 \in TemplatePieces, piece2 \in TemplatePieces,
          additional_values \in {None, PyDict(SetItem(<<>>, "OTHER", <<"v">>)),
                                PyDict(SetItem(<<>>, "BUILD_ID", <<"x">>))} :
        \E metadata \in {BuildMetadataInit(CreateEnvVars(one_off_build, instance_vars, <<>>)).val},
           environ \in {IF created_by THEN [BUILD_CREATED_BY |-> <<"m", "e">>] ELSE <<>>} :
            /\ inp' = [metadata |-> metadata, environ |-> environ,
                       string |-> <<piece1, piece2>>,
                       additional_values |-> additional_values,
                       ignore_missing |-> ignore_missing]
            /\ out' = FormatString(metadata, environ, <<piece1, piece2>>, additional_values,
                                   ignore_missing)
    /\ pc' = "interpolate"


\* The starting states of a temporary directory.
FolderDicts == {None, PyDict(<<>>), PyDict(SetItem(<<>>, "a", <<"x">>))}

\* The sequences of at most MaxCalls __enter__ and __exit__ calls.
CallSequences == UNION {[1..k -> {"enter", "exit"}] : k \in 0..MaxCalls}

\* path and final_state of a TemporaryDirectoryState after a sequence of
\* __enter__ and __exit__ calls.
DirectoryState ==
    /\ pc = "idle"
    /\ \E starting_state \in FolderDicts, calls \in CallSequences :
        \E self \in {TemporaryDirectoryStateCalls(TemporaryDirectoryStateInit(starting_state),
                                                  calls)} :
            /\ inp' = [starting_state |-> starting_state, calls |-> calls]
            /\ out' = [self |-> self,
                       path |-> TemporaryDirectoryStatePath(self),
                       final_state |-> TemporaryDirectoryStateFinalState(self)]
    /\ pc' = "directory_state"


\* The steps of a test that uses capture_directory_state.
ContextSteps ==
    {[op |-> "open", starting_state |-> s] : s \in {None, PyDict(SetItem(<<>>, "n", <<"1">>))}}
    \cup {[op |-> o, starting_state |-> None] : o \in {"close", "raise"}}

\* The number of contexts that are open after the steps.
RECURSIVE Depth(_)
Depth(steps) ==
    IF steps = <<>> THEN 0
    ELSE The({ CASE steps[Len(steps)].op = "open" -> before + 1
                 [] steps[Len(steps)].op = "close" -> before - 1
                 [] OTHER -> 0
               : before \in {Depth(SubSeq(steps, 1, Len(steps) - 1))} })

\* The sequences of at most MaxCalls steps that only leave an open context.
ContextScripts ==
    {steps \in UNION {[1..k -> ContextSteps] : k \in 0..MaxCalls} :
        \A i \in 1..Len(steps) :
            steps[i].op # "open" => Depth(SubSeq(steps, 1, i - 1)) > 0}

\* fetch_new_versions of a wrapper after a sequence of steps with
\* capture_directory_state.
CaptureDirectoryState ==
    /\ pc = "idle"
    /\ \E directory_dict \in FolderDicts, steps \in ContextScripts,
          previous_version \in {None, HistoryVersions("TestResource")[1]} :
        \E run \in {RunContexts(TestResourceWrapperInit(directory_dict), <<>>, steps)} :
            /\ inp' = [directory_dict |-> directory_dict, steps |-> steps,
                       previous_version |-> previous_version]
            /\ out' = [self |-> run.self, stack |-> run.stack,
                       fetched |-> WrapperFetchNewVersions(run.self, previous_version)]
    /\ pc' = "capture_directory_state"


\* The next check of a resource: fetch_new_versions with the last version
\* of the list the check before returned, as Concourse passes it.
NextCheck(source, result) ==
    IF ~IsOk(result) \/ result.val = <<>> THEN result
    ELSE IF source.kind = "trigger"
    THEN TriggerFetchNewVersions(source.latest, result.val[Len(result.val)], source.henv)
    ELSE SelfOrganisingFetchNewVersions(source.all_versions, result.val[Len(result.val)])

\* The sources of the repeated checks: what fetch_latest_version or
\* fetch_all_versions returns at every check, and the first previous version.
CheckedSources ==
    UNION {{[kind |-> "trigger", latest |-> pair[1], previous |-> pair[2], henv |-> henv] :
                henv \in HashEnvs({pair[1], pair[2]} \ {None})} :
            pair \in TriggerVersions \X (TriggerVersions \cup {None})}
    \cup UNION {{[kind |-> "organise", all_versions |-> all_versions, previous |-> previous] :
                    all_versions \in PySets(OrganisedVersions(cls), MaxSetSize),
                    previous \in OrganisedVersions(cls) \cup {None}} :
                cls \in OrganisedClasses}

\* Three checks in a row against a source that does not change.
RepeatedChecks ==
    /\ pc = "idle"
    /\ \E source \in CheckedSources :
        \E first \in {IF source.kind = "trigger"
                      THEN TriggerFetchNewVersions(source.latest, source.previous, source.henv)
                      ELSE SelfOrganisingFetchNewVersions(source.all_versions, source.previous)} :
        \E second \in {NextCheck(source, first)} :
            /\ inp' = source
            /\ out' = [first |-> first, second |-> second, third |-> NextCheck(source, second)]
    /\ pc' = "repeated_checks"

\* The source configurations given to the combined resource.
CombinedConfigs ==
    {<<>>,
     <<Attr(kSomethingA, PyStr(<<>>))>>,
     <<Attr(kSomethingA, PyStr(<<>>)), Attr(kResource, PyStr(<<"A">>))>>,
     <<Attr(kResource, PyStr(<<"A">>)), Attr(kSomethingA, PyStr(<<>>))>>,
     <<Attr(kSomethingB, PyStr(<<>>)), Attr(kResource, PyStr(<<"B">>))>>,
     <<Attr(kSomethingB, PyStr(<<>>)), Attr(kResource, PyStr(<<"A">>))>>,
     <<Attr(kResource, PyStr(<<"A">>))>>,
     <<Attr(kSomethingA, PyStr(<<>>)), Attr(kResource, PyStr(<<"C">>))>>,
     <<Attr(kSomethingA, PyStr(<<>>)), Attr(kResource, PyInt(7))>>,
     <<Attr(kSomethingA, PyStr(<<>>)), Attr(kResource, PyList(<<PyStr(<<"A">>)>>))>>}

CombinedVersions ==
    {Absent, JsonObject(<<Attr(kA, PyStr(<<>>))>>), JsonObject(<<Attr(kB, PyStr(<<>>))>>)}

\* The build environment of a step.
BuildEnviron == CHOOSE environ \in Environs : "BUILD_ID" \in DOMAIN environ

\* The main method of a step script.
RunMain(step, cls, payload) ==
    CASE step = "check" -> CheckMain(cls, payload, <<>>)
      [] step = "in" ->
            InMain(cls, payload, <<<<"i", "n">>, sTmp>>, BuildEnviron,
                   [destination_exists |-> TRUE, ref_text |-> None])
      [] step = "out" ->
            OutMain(cls, payload, <<<<"o", "u", "t">>, sTmp>>, BuildEnviron,
                    [destination_exists |-> TRUE, ref_text |-> None])

\* A step of the combined resource on a source configuration, and the same
\* step of each resource class of the mapping on the configuration without
\* the flag.
Combined ==
    /\ pc = "idle"
    /\ \E step \in {"check", "in", "out"}, config \in CombinedConfigs,
          version \in CombinedVersions :
        /\ inp' = [step |-> step, config |-> config, version |-> version]
        /\ out' = [combined |->
                       RunMain(step, "CombinedResource",
                               The(Payloads({JsonObject(config)}, {version}, {Absent}))),
                   direct |->
                       [cls \in {"ResourceA", "ResourceB"} |->
                           RunMain(step, cls,
                                   The(Payloads({JsonObject(DictPop(config, CombinedParamKey))},
                                                {version}, {Absent})))]]
    /\ pc' = "combined"

\* CombinedResource(*args, **kwargs)
Instantiate ==
    /\ pc = "idle"
    /\ \E args \in {<<>>, <<PyStr(<<>>)>>},
          kwargs \in {<<>>, <<Attr(kSomethingA, PyStr(<<>>))>>,
                      <<Attr(kSomethingA, PyStr(<<>>)), Attr(kResource, PyStr(<<"A">>))>>} :
        /\ inp' = [args |-> args, kwargs |-> kwargs]
        /\ out' = PseudoNew("CombinedResource", args, kwargs)
    /\ pc' = "instantiate"

\* The version configurations and the metadata given to the format
\* functions: strings and other objects.
FormatConfigs ==
    {<<>>,
     <<Attr(kRef, PyStr(<<"6", "1", "c", "b", "e", "f">>))>>,
     <<Attr(kRef, PyInt(7))>>,
     <<Attr(kRef, PyBool(TRUE)), Attr(kA, None)>>}

FormatMetadatas ==
    {<<>>,
     <<Attr(kTeamName, PyStr(<<"m", "y", "-", "t", "e", "a", "m">>))>>,
     <<Attr(kA, PyInt(-3)), Attr(kB, None)>>}

\* format_check_output of a list of version configurations, and
\* format_in_out_output of a version configuration and metadata.
Format ==
    /\ pc = "idle"
    /\ \E version_configs \in UNION {[1..n -> FormatConfigs] : n \in 0..2},
          version_config \in FormatConfigs, metadata \in FormatMetadatas :
        /\ inp' = [version_configs |-> version_configs, version_config |-> version_config,
                   metadata |-> metadata]
        /\ out' = [check |-> FormatCheckOutput(version_configs),
                   in_out |-> FormatInOutOutput(version_config, metadata)]
    /\ pc' = "format"

Next ==
    \/ BoolCodec
    \/ RoundTrip
    \/ Compare
    \/ Trigger
    \/ Organise
    \/ MultiFlatten
    \/ Check
    \/ ParsePayload
    \/ In
    \/ Out
    \/ Combined
    \/ Instantiate
    \/ Format
    \/ Register
    \/ Publish
    \/ MockEnviron
    \/ Interpolate
    \/ DirectoryState
    \/ CaptureDirectoryState
    \/ RepeatedChecks
    \/ Exit

Spec == Init /\ [][Next]_vars

\* C9: the boolean codec flattens True to "True" and False to "False",
\* un-flattening a flattened boolean gives it back, and a string un-flattens
\* to True only when it is exactly "True".
BoolCodecRoundTrip ==
    pc = "bool_codec" =>
        /\ out.flat = (IF inp.b THEN sTrue ELSE sFalse)
        /\ out.back = Ok(PyBool(inp.b))
        /\ out.parsed = Ok(PyBool(inp.s = sTrue))

BoolCodecWitness ==
    /\ pc = "bool_codec"
    /\ inp.b = FALSE
    /\ inp.s = sFalse
    /\ out.back = Ok(PyBool(FALSE))
    /\ out.parsed = Ok(PyBool(FALSE))

\* C6: for every Version subclass V and every instance v of V, un-flattening
\* the flattened v succeeds and gives an instance equal to v.
RoundTripIsIdentity ==
    pc = "round_trip" => (IsOk(out.back) /\ out.eq)

\* C7: two instances of the same class that use the base equality are equal
\* exactly when their flat dicts are equal, and equal instances have equal
\* hashes.
EqualIffSameFlatDict ==
    (pc = "compare" /\ inp.v1.cls = inp.v2.cls) =>
        /\ out.eq <=> DictEq(ToFlatDict(inp.v1), ToFlatDict(inp.v2))
        /\ out.eq => (out.hash1 = out.hash2)

\* C8: two instances of different Version subclasses are never equal, even
\* when their flat dicts are the same.
DifferentClassesNeverEqual ==
    (pc = "compare" /\ inp.v1.cls # inp.v2.cls) => ~out.eq

\* a is strictly less than b where the comparison is defined.
Less(a, b) == IsOk(VersionLt(a, b)) /\ VersionLt(a, b).val

\* C1: a trigger-on-change check returns [L] without a previous version, [P]
\* when the latest version L equals the previous version P and [P, L]
\* otherwise, so at most one returned version is not P.
TriggerPolicy ==
    pc = "trigger" =>
        /\ inp.previous = None => out = Ok(<<inp.latest>>)
        /\ (inp.previous # None /\ VersionEq(inp.latest, inp.previous, inp.henv))
                => out = Ok(<<inp.previous>>)
        /\ (inp.previous # None /\ ~VersionEq(inp.latest, inp.previous, inp.henv))
                => out = Ok(<<inp.previous, inp.latest>>)
        /\ IsOk(out) /\ Cardinality({i \in 1..Len(out.val) : out.val[i] # inp.previous}) <= 1

TriggerPolicyWitness ==
    /\ pc = "trigger"
    /\ inp.previous # None
    /\ ToFlatDict(inp.previous) # ToFlatDict(inp.latest)
    /\ out = Ok(<<inp.previous, inp.latest>>)

SelfOrganisingLatestOnly ==
    (pc = "organise" /\ IsOk(out)) =>
        /\ inp.all_versions = <<>> => out.val = <<>>
        /\ (inp.all_versions # <<>> /\ inp.previous = None) =>
                /\ Len(out.val) = 1
                /\ out.val[1] \in SeqRange(inp.all_versions)
                /\ \A v \in SeqRange(inp.all_versions) : ~Less(out.val[1], v)

SelfOrganisingLatestWitness ==
    /\ pc = "organise"
    /\ inp.previous = None
    /\ Len(inp.all_versions) = 2
    /\ Less(inp.all_versions[2], inp.all_versions[1])
    /\ out = Ok(<<inp.all_versions[1]>>)

\* C5: a self-organising check over a non-empty fetched set that fails
\* because its versions cannot be compared fails with RuntimeError, and the
\* empty list is only returned for an empty fetched set.
ComparisonFailureIsRuntimeError ==
    pc = "organise" =>
        /\ (inp.all_versions # <<>> /\ ~IsOk(out)) => out = Raise("RuntimeError")
        /\ out = Ok(<<>>) => inp.all_versions = <<>>

\* C4: a check whose payload carries no version writes a JSON array of
\* exactly one version, the latest of the resource.
CheckWithoutVersionEmitsLatestOnly ==
    (pc = "check" /\ "version" \notin DOMAIN inp.payload /\ out.exc = "none") =>
        LET history == HistoryVersions(inp.cls)
        IN /\ Len(out.stdout) = 1
           /\ JsonLoads(out.stdout[1]) = <<AsObjects(ToFlatDict(history[Len(history)]))>>

\* C10: two MultiVersions that hold the same sub-versions flatten to the
\* same JSON text, whatever the iteration order of their sets.
MultiFlattenOrderIndependent ==
    (pc = "multi_flatten" /\ out.same /\ IsOk(out.flat1) /\ IsOk(out.flat2)) =>
        out.flat1 = out.flat2

\* C11 (as stated): flattening a MultiVersion whose sub-version class is not
\* sortable fails with TypeError, however many sub-versions it holds.
MultiFlattenUnsortableAlwaysFails ==
    (pc = "multi_flatten" /\ ClassInfo(inp.mv1.sub).lt = "none") =>
        out.flat1 = Raise("TypeError")

\* C11 (amended): flattening a MultiVersion whose sub-version class is not
\* sortable fails with TypeError and gives no flat dict when it holds two or
\* more sub-versions; with fewer than two nothing is compared and it succeeds.
MultiFlattenUnsortableFails ==
    (pc = "multi_flatten" /\ ClassInfo(inp.mv1.sub).lt = "none") =>
        IF Len(inp.mv1.versions) >= 2
        THEN out.flat1 = Raise("TypeError") /\ out.flat2 = Raise("TypeError")
        ELSE IsOk(out.flat1)

MultiFlattenUnsortableWitness ==
    /\ pc = "multi_flatten"
    /\ inp.mv1.sub = "GitRepoSubVersionUnsortable"
    /\ Len(inp.mv1.versions) = 2
    /\ out.flat1 = Raise("TypeError")

\* The flag of a source configuration names a class of the mapping.
FlagNamesResource(config) ==
    /\ CombinedParamKey \in Keys(config)
    /\ config[Lookup(config, CombinedParamKey)].v.t = "str"
    /\ config[Lookup(config, CombinedParamKey)].v.s \in Keys(CombinedResources)

\* The class of the mapping the flag of a source configuration names.
NamedResource(config) ==
    CombinedResources[Lookup(CombinedResources,
                             config[Lookup(config, CombinedParamKey)].v.s)].v

\* C12: when the flag of the source configuration names a class A of the
\* mapping, check, in and out through the combined class end, write and call
\* user code exactly as through A on the configuration without the flag, and
\* the constructor of the delegate is never given the flag.
CombinedDelegatesToNamedResource ==
    (pc = "combined" /\ FlagNamesResource(inp.config)) =>
        /\ out.combined = out.direct[NamedResource(inp.config)]
        /\ \A i \in 1..Len(out.combined.calls) :
              /\ out.combined.calls[i].cls = NamedResource(inp.config)
              /\ out.combined.calls[i].name = "__init__" =>
                    CombinedParamKey \notin Keys(out.combined.calls[i].kwargs)

CombinedDelegatesWitness ==
    /\ pc = "combined"
    /\ inp.step = "in"
    /\ FlagNamesResource(inp.config)
    /\ NamedResource(inp.config) = "ResourceA"
    /\ out.combined.exc = "none"
    /\ Len(out.combined.stdout) = 1
    /\ Len(out.combined.calls) = 2

\* The delegate the flag names accepts the configuration without the flag.
DelegateAccepts(config) ==
    LET info == ResourceInfo(NamedResource(config))
        rest == Keys(config) \ {CombinedParamKey}
    IN info.required \subseteq rest /\ rest \subseteq (info.required \cup info.optional)

\* C13: building the resource from a source configuration through the
\* combined class fails with ValueError when the configuration has no flag,
\* with KeyError when the value of the flag is not a key of the mapping, and
\* with the TypeError of the delegate when the flag is known and the delegate
\* does not accept the other parameters: one kind for each of the three cases.
CombinedFailuresDistinguishable ==
    (pc = "combined" /\ inp.step = "check") =>
        /\ CombinedParamKey \notin Keys(inp.config) => out.combined.exc = "ValueError"
        /\ (CombinedParamKey \in Keys(inp.config) /\ ~FlagNamesResource(inp.config))
                => out.combined.exc = "KeyError"
        /\ (FlagNamesResource(inp.config) /\ ~DelegateAccepts(inp.config))
                => out.combined.exc = "TypeError"
        /\ (FlagNamesResource(inp.config) /\ DelegateAccepts(inp.config))
                => out.combined.exc \notin {"ValueError", "KeyError"}

\* C14: instantiating the combined class raises TypeError whatever the
\* arguments, and no constructor of a delegate is called.
InstantiatingCombinedRaises ==
    pc = "instantiate" => (out.exc = "TypeError" /\ out.calls = <<>>)

InstantiatingCombinedWitness ==
    /\ pc = "instantiate"
    /\ inp.args = <<>>
    /\ FlagNamesResource(inp.kwargs)
    /\ out.exc = "TypeError"

\* C15: parse_check_payload, parse_in_payload and parse_out_payload raise
\* RuntimeError for a payload without `source`, whatever else it holds.
MissingSourceIsRuntimeError ==
    (pc = "parse" /\ "source" \notin DOMAIN inp.payload) =>
        /\ out.check_payload = Raise("RuntimeError")
        /\ out.in_payload = Raise("RuntimeError")
        /\ out.out_payload = Raise("RuntimeError")

MissingSourceWitness ==
    /\ pc = "parse"
    /\ DOMAIN inp.payload = {"version", "params"}
    /\ inp.payload.params = JsonNull
    /\ out.in_payload = Raise("RuntimeError")
    /\ out.out_payload = Raise("RuntimeError")

ParamsWellFormed(payload) ==
    "params" \in DOMAIN payload => payload.params # JsonNull

FormattedDocumentsHoldStrings ==
    pc = "format" =>
        LET check_doc == JsonLoads(out.check)
            in_out_doc == JsonLoads(out.in_out)
        IN /\ Len(check_doc) = Len(inp.version_configs)
           /\ \A i \in 1..Len(check_doc) :
                /\ Len(check_doc[i]) = Len(inp.version_configs[i])
                /\ \A j \in 1..Len(check_doc[i]) :
                     check_doc[i][j] = Attr(inp.version_configs[i][j].k,
                                            PyStr(StrOf(inp.version_configs[i][j].v)))
           /\ DOMAIN in_out_doc = {"version", "metadata"}
           /\ Len(in_out_doc.version) = Len(inp.version_config)
           /\ \A j \in 1..Len(in_out_doc.version) :
                in_out_doc.version[j] = Attr(inp.version_config[j].k,
                                             PyStr(StrOf(inp.version_config[j].v)))
           /\ Len(in_out_doc.metadata) = Len(inp.metadata)
           /\ \A i \in 1..Len(in_out_doc.metadata) :
                /\ DOMAIN in_out_doc.metadata[i] = {"name", "value"}
                /\ in_out_doc.metadata[i].name = PyStr(inp.metadata[i].k)
                /\ in_out_doc.metadata[i].value = PyStr(StrOf(inp.metadata[i].v))

FormattedDocumentsWitness ==
    /\ pc = "format"
    /\ inp.version_configs = <<<<Attr(kRef, PyInt(7))>>,
                               <<Attr(kRef, PyStr(<<"6", "1", "c", "b", "e", "f">>))>>>>
    /\ JsonLoads(out.check) = <<<<Attr(kRef, PyStr(<<"7">>))>>,
                                <<Attr(kRef, PyStr(<<"6", "1", "c", "b", "e", "f">>))>>>>
    /\ inp.metadata = <<Attr(kA, PyInt(-3)), Attr(kB, None)>>
    /\ JsonLoads(out.in_out).metadata =
            <<[name |-> PyStr(kA), value |-> PyStr(<<"-", "3">>)],
              [name |-> PyStr(kB), value |-> PyStr(<<"N", "o", "n", "e">>)]>>

\* The main methods that read a payload and call a lifecycle method.
MainSteps == {"check", "in", "out"}

\* The input a main method parsed from what it was started with.
MainInput ==
    CASE pc = "check" -> ParseCheckInput(inp.cls, inp.payload)
      [] pc = "in" -> ParseInInput(inp.cls, inp.payload, inp.argv)
      [] pc = "out" -> ParseOutInput(inp.cls, inp.payload, inp.argv)

\* The main method got as far as calling the lifecycle method.
LifecycleCalled ==
    /\ pc \in MainSteps
    /\ IsOk(MainInput)
    /\ pc \in {"in", "out"} => IsOk(BuildMetadataFromEnv(inp.environ))

\* What the lifecycle method gave and printed when the main method called it.
LifecycleCall ==
    CASE pc = "check" ->
            FetchNewVersions(MainInput.val.resource.cls, MainInput.val.previous_version,
                             inp.all_versions)
      [] pc = "in" ->
            DownloadVersion(MainInput.val.resource.cls, MainInput.val.version,
                            MainInput.val.destination_dir,
                            BuildMetadataFromEnv(inp.environ).val, MainInput.val.params, inp.fs)
      [] pc = "out" ->
            PublishNewVersion(MainInput.val.resource.cls, MainInput.val.sources_dir,
                              BuildMetadataFromEnv(inp.environ).val, MainInput.val.params,
                              inp.fs)

\* C18: in check_main, in_main and out_main what the lifecycle method
\* prints is on standard error, in the order printed, and when the main
\* method succeeds standard output holds one line, the JSON document of the
\* result: the list of the flattened versions for check, the flattened
\* version and the formatted metadata for in and out.
StdoutIsOnlyTheResult ==
    pc \in MainSteps =>
        /\ out.stderr = (IF LifecycleCalled THEN LifecycleCall.printed ELSE <<>>)
        /\ out.exc = "none" =>
            /\ LifecycleCalled
            /\ Len(out.stdout) = 1
            /\ IF pc = "check"
               THEN JsonLoads(out.stdout[1]) =
                        [i \in 1..Len(LifecycleCall.result.val) |->
                            AsObjects(ToFlatDict(LifecycleCall.result.val[i]))]
               ELSE JsonLoads(out.stdout[1]) =
                        [version |-> AsObjects(ToFlatDict(LifecycleCall.result.val.version)),
                         metadata |-> FormatMetadata(LifecycleCall.result.val.metadata)]

StdoutIsOnlyTheResultWitness ==
    /\ pc = "check"
    /\ inp.cls = "TestResource"
    /\ inp.payload = [source |-> JsonObject(<<Attr(kUri, PyStr(sGitX))>>),
                      version |-> JsonObject(<<Attr(kRef, PyStr(<<"6", "1", "c", "b", "e", "f">>))>>)]
    /\ out.stderr = <<"Previous version found.">>
    /\ out.stdout = <<JsonDumps(<<<<Attr(kRef, PyStr(<<"7", "1", "5", "4", "f", "e">>))>>>>)>>

\* C19: when the lifecycle method raises in check_main, in_main or out_main
\* the main method ends with that exception and standard output stays
\* empty; sys.stdout refers to the stream it referred to at the start
\* whenever a main method ends; and standard output holds one JSON document
\* when the main method succeeded and nothing when it failed.
LifecycleRaisePropagates ==
    pc \in MainSteps =>
        /\ out.sys_stdout = StdStreams.sys_stdout
        /\ (LifecycleCalled /\ ~IsOk(LifecycleCall.result)) =>
                (out.exc = LifecycleCall.result.exc /\ out.stdout = <<>>)
        /\ Len(out.stdout) = (IF out.exc = "none" THEN 1 ELSE 0)
        /\ \A i \in 1..Len(out.stdout) : JsonDumps(JsonLoads(out.stdout[i])) = out.stdout[i]

LifecycleRaiseWitness ==
    /\ pc = "in"
    /\ inp.cls = "TestResource"
    /\ ~inp.fs.destination_exists
    /\ out.exc = "FileNotFoundError"
    /\ out.stderr = <<"Downloading.">>
    /\ out.stdout = <<>>
    /\ out.sys_stdout = "stdout"

\* C20: check_main, in_main and out_main end with an error and without
\* having called the constructor of the resource or a lifecycle method when
\* the payload has no `source`, when the payload of in has no `version`,
\* and when in or out is started without argv[1]; without argv[1] the error
\* is ValueError, and with argv[1] a missing source is RuntimeError.
ValidationPrecedesUserCode ==
    /\ pc \in MainSteps =>
        /\ "source" \notin DOMAIN inp.payload =>
                (out.exc # "none" /\ out.calls = <<>>)
        /\ ("source" \notin DOMAIN inp.payload /\ (pc = "check" \/ Len(inp.argv) >= 2)) =>
                out.exc = "RuntimeError"
        /\ (pc = "in" /\ "version" \notin DOMAIN inp.payload) =>
                (out.exc # "none" /\ out.calls = <<>>)
        /\ (pc \in {"in", "out"} /\ Len(inp.argv) < 2) =>
                (out.exc = "ValueError" /\ out.calls = <<>>)
    /\ (pc = "combined" /\ inp.step = "in" /\ inp.version = Absent) =>
            (out.combined.exc = "RuntimeError" /\ out.combined.calls = <<>>)

ValidationPrecedesUserCodeWitness ==
    /\ pc = "in"
    /\ inp.cls = "TestResource"
    /\ Len(inp.argv) = 1
    /\ inp.payload = [source |-> JsonObject(<<Attr(kUri, PyStr(sGitX))>>),
                      version |-> JsonObject(<<Attr(kRef, PyStr(<<"6", "1", "c", "b", "e", "f">>))>>)]
    /\ "BUILD_ID" \in DOMAIN inp.environ
    /\ inp.fs.destination_exists
    /\ out.exc = "ValueError"
    /\ out.calls = <<>>

\* C21: check_main reads no environment variable: it is given none and
\* succeeds whenever its input parses and fetch_new_versions returns.
\* in_main and out_main read the build metadata from the environment after
\* the input is parsed and before the lifecycle method is called: an input
\* error ends them with that error whatever the environment holds, and with
\* a parsed input and a required variable missing they end with KeyError,
\* having called the constructor of the resource and nothing else; with the
\* required variables present the lifecycle method is called.
BuildMetadataOnlyForInAndOut ==
    pc \in MainSteps =>
        /\ ~IsOk(MainInput) => (out.exc = MainInput.exc /\ out.calls = MainInput.calls)
        /\ (pc = "check" /\ IsOk(MainInput) /\ IsOk(LifecycleCall.result)) => out.exc = "none"
        /\ (pc \in {"in", "out"} /\ IsOk(MainInput)) =>
            IF {"BUILD_ID", "BUILD_TEAM_NAME", "ATC_EXTERNAL_URL"} \subseteq DOMAIN inp.environ
            THEN /\ Len(out.calls) = 2
                 /\ out.calls[2].name = (IF pc = "in" THEN "download_version"
                                                      ELSE "publish_new_version")
            ELSE /\ out.exc = "KeyError"
                 /\ Len(out.calls) = 1
                 /\ out.calls[1].name = "__init__"
                 /\ out.stdout = <<>> /\ out.stderr = <<>>

BuildMetadataWitness ==
    /\ pc = "in"
    /\ inp.cls = "TestResource"
    /\ inp.environ = <<>>
    /\ Len(inp.argv) = 2
    /\ inp.payload = [source |-> JsonObject(<<Attr(kUri, PyStr(sGitX))>>),
                      version |-> JsonObject(<<Attr(kRef, PyStr(<<"6", "1", "c", "b", "e", "f">>))>>)]
    /\ out.exc = "KeyError"
    /\ Len(out.calls) = 1

\* C22: _flatten_object applies the function registered for the first class
\* of the MRO of the type of the object that has one, and str(obj) when
\* none has; _un_flatten_object does the same with the MRO of the declared
\* type, and calls type_(flat_obj) when none has.  So a function registered
\* for int is applied to a bool unless bool is registered too.
CodecLookupWalksMro ==
    pc = "register" =>
        \A c \in TypedClasses :
            LET mro == Mro(inp.obj.t)
                flatten == out.registries[RegistryOf(c)].flatten
                un_flatten == out.registries[RegistryOf(c)].un_flatten
                First(registry) == CHOOSE i \in 1..Len(mro) :
                                      /\ mro[i] \in DOMAIN registry
                                      /\ \A j \in 1..(i - 1) : mro[j] \notin DOMAIN registry
            IN /\ out.after[c].flat =
                    (IF \E i \in 1..Len(mro) : mro[i] \in DOMAIN flatten
                     THEN ApplyFlatten(flatten[mro[First(flatten)]], inp.obj)
                     ELSE FlattenDefault(inp.obj))
               /\ out.after[c].back =
                    (IF \E i \in 1..Len(mro) : mro[i] \in DOMAIN un_flatten
                     THEN ApplyUnFlatten(un_flatten[mro[First(un_flatten)]], inp.obj.t, inp.s)
                     ELSE UnFlattenDefault(inp.obj.t, inp.s))

CodecLookupWitness ==
    /\ pc = "register"
    /\ inp.via = "TypedVersion"
    /\ inp.key = "int"
    /\ inp.obj = PyBool(TRUE)
    /\ inp.s = <<"t", "r", "u", "e">>
    /\ out.before["TypedVersion"].flat = sTrue
    /\ out.after["TypedVersion"].flat = <<"t", "r", "u", "e">>
    /\ out.after["TypedVersion"].back = Ok(PyBool(FALSE))

\* C23: registering a flatten and an un-flatten function through one
\* subclass of TypedVersion leaves what _flatten_object and
\* _un_flatten_object give for TypedVersion and for every other subclass
\* as it was before.
RegistrationIsPerClass ==
    (pc = "register" /\ inp.via # "TypedVersion") =>
        \A c \in TypedClasses \ {inp.via} : out.after[c] = out.before[c]

\* C24: two calls of publish_new_version of an InOnlyConcourseResource, the
\* second later than the first by however little, return versions whose
\* flattened forms differ, and fetch_new_versions returns the empty list.
PublishedVersionsAreUnique ==
    pc = "publish" => (out.first # out.second /\ out.fetched = <<>>)

\* The names format_string is to substitute: the build variables,
\* BUILD_URL, the names of the additional values, and BUILD_CREATED_BY when
\* the environment has it.
IsSafeName(name) ==
    \/ name \in BuildVariables \cup {"BUILD_URL"}
    \/ inp.additional_values # None /\ name \in DOMAIN inp.additional_values.dict
    \/ name = "BUILD_CREATED_BY" /\ "BUILD_CREATED_BY" \in DOMAIN inp.environ

\* The value of such a name: an additional value goes first, and an
\* optional build variable the build has not is the empty string.
SafeValue(name) ==
    IF inp.additional_values # None /\ name \in DOMAIN inp.additional_values.dict
    THEN inp.additional_values.dict[name]
    ELSE IF name \in BuildVariables THEN OrEmpty(inp.metadata[name])
    ELSE IF name = "BUILD_URL" THEN BuildUrl(inp.metadata)
    ELSE inp.environ["BUILD_CREATED_BY"]

\* C25: format_string puts for every placeholder of the safe set its value
\* (the build variables, an absent optional one as the empty string,
\* $BUILD_URL, $BUILD_CREATED_BY when the environment has it, and the
\* additional values); with a placeholder outside the set it raises
\* KeyError, or leaves the placeholder as it is when ignore_missing is set.
FormatStringSubstitutesSafeSet ==
    pc = "interpolate" =>
        IF ~inp.ignore_missing /\ \E i \in 1..Len(inp.string) :
                "var" \in DOMAIN inp.string[i] /\ ~IsSafeName(inp.string[i].var)
        THEN out = Raise("KeyError")
        ELSE /\ IsOk(out)
             /\ Len(out.val) = Len(inp.string)
             /\ \A i \in 1..Len(inp.string) :
                    IF "var" \in DOMAIN inp.string[i] /\ IsSafeName(inp.string[i].var)
                    THEN out.val[i] = [lit |-> SafeValue(inp.string[i].var)]
                    ELSE out.val[i] = inp.string[i]

\* C28: every keyword given to create_env_vars as env_vars is in the mapping
\* it returns, with the value given, whatever one_off_build and
\* instance_vars are.
EnvVarsPassThrough ==
    pc = "mock_environ" =>
        \A name \in DOMAIN inp.env_vars :
            name \in DOMAIN out /\ out[name] = inp.env_vars[name]

\* C26: after any sequence of __enter__ and __exit__ calls on one
\* TemporaryDirectoryState, path raises RuntimeError whenever the temporary
\* directory is closed and final_state raises RuntimeError whenever it is
\* open.
DirectoryStateGuardsAccess ==
    pc = "directory_state" =>
        /\ ~IsOpen(out.self) => out.path = Raise("RuntimeError")
        /\ IsOpen(out.self) => out.final_state = Raise("RuntimeError")

\* C27: while a capture_directory_state context of a wrapper is open,
\* fetch_new_versions raises RuntimeError; once every context has exited,
\* normally or by exception and also after nested contexts, it returns what
\* the resource returns and the directory state of the wrapper is what it
\* was before the first context was opened.
ForbiddenOnlyInsideContext ==
    pc = "capture_directory_state" =>
        /\ out.stack # <<>> => out.fetched = Raise("RuntimeError")
        /\ out.stack = <<>> =>
            /\ out.fetched = FetchNewVersions("TestResource", inp.previous_version, <<>>).result
            /\ out.self.directory_state = TemporaryDirectoryStateInit(inp.directory_dict)

\* Two nested contexts, the inner one with a starting state of its own, are
\* left by an exception and fetch_new_versions returns versions again.
ForbiddenOnlyInsideContextWitness ==
    /\ pc = "capture_directory_state"
    /\ Len(inp.steps) = 3
    /\ inp.steps[1].op = "open" /\ inp.steps[2].op = "open" /\ inp.steps[3].op = "raise"
    /\ inp.steps[2].starting_state # None
    /\ out.stack = <<>>
    /\ IsOk(out.fetched)

\* Inside the outer of two nested contexts, after the inner one was left
\* normally, fetch_new_versions is still forbidden.
StillForbiddenAfterNestedWitness ==
    /\ pc = "capture_directory_state"
    /\ Len(inp.steps) = 3
    /\ inp.steps[1].op = "open" /\ inp.steps[2].op = "open" /\ inp.steps[3].op = "close"
    /\ Len(out.stack) = 1
    /\ out.fetched = Raise("RuntimeError")

\* C29: fetch_new_versions of the trigger-on-change and of the
\* self-organising resource return a list that is oldest first and that
\* holds the requested previous version whenever that version is still
\* the latest version, or still among the fetched versions.
CheckContractHonoured ==
    /\ pc = "trigger" /\ inp.previous # None =>
        /\ IsOk(out)
        /\ out.val[1] = inp.previous
    /\ pc = "organise" /\ IsOk(out) /\ inp.previous # None =>
        /\ \A i, j \in 1..Len(out.val) :
              i < j => VersionLt(out.val[j], out.val[i]) # Ok(TRUE)
        /\ inp.previous \in SeqRange(inp.all_versions) =>
              inp.previous \in SeqRange(out.val)

\* The versions of a source are strictly totally ordered: any two of them
\* compare, and of two different ones exactly one is less than the other.
StrictlyOrdered(versions) ==
    \A a, b \in versions :
        /\ IsOk(VersionLt(a, b))
        /\ a = b => ~VersionLt(a, b).val
        /\ a # b => (VersionLt(a, b).val # VersionLt(b, a).val)

\* C30: against a source that does not change and is not empty, with
\* versions that are strictly totally ordered, a check returns a list R,
\* the next check, with the last version of R, returns exactly that
\* version, and so does every check after it.
ChecksStabilise ==
    pc = "repeated_checks" =>
        \/ /\ inp.kind = "organise"
           /\ \/ inp.all_versions = <<>>
              \/ ~StrictlyOrdered(SeqRange(inp.all_versions) \cup ({inp.previous} \ {None}))
        \/ /\ IsOk(out.first)
           /\ out.first.val # <<>>
           /\ out.second = Ok(<<out.first.val[Len(out.first.val)]>>)
           /\ out.third = out.second

\* A self-organising check returns two newer versions and the next check
\* only the newest of them.
ChecksStabiliseWitness ==
    /\ pc = "repeated_checks"
    /\ inp.kind = "organise"
    /\ IsOk(out.first)
    /\ Len(out.first.val) = 2
    /\ out.second = Ok(<<out.first.val[2]>>)
    /\ out.third = out.second

\* A trigger-on-change check returns [P, L] and the next check only L.
TriggerStabilisesWitness ==
    /\ pc = "repeated_checks"
    /\ inp.kind = "trigger"
    /\ IsOk(out.first)
    /\ Len(out.first.val) = 2
    /\ out.second = Ok(<<inp.latest>>)

====
